---- MODULE Spec2Model ----
(***************************************************************************)
(* Classification, grouping and commit-message normalization pipeline of   *)
(* vc_commit_helper (llm/commit_message_generator.py,                      *)
(* grouping/change_classifier.py).                                         *)
(*                                                                         *)
(* A Python str is a sequence of one-character strings; "\n" is the line   *)
(* break and " ", "\t", "\n" are the whitespace characters of the model.   *)
(***************************************************************************)
EXTENDS Integers, Sequences, FiniteSets, TLC

\* ------------------------------------------------------------------------
\* Python string primitives used by the code
\* ------------------------------------------------------------------------

\* str.isspace / regex \s, restricted to the characters of the model
IsSpace(ch) == ch \in {" ", "\t", "\n"}

\* line boundary of str.splitlines
IsLineBreak(ch) == ch = "\n"

\* upper-case letters and their lower-case forms (str.lower, re.IGNORECASE)
LowerMap ==
  [A |-> "a", B |-> "b", C |-> "c", D |-> "d", E |-> "e", F |-> "f", G |-> "g",
   H |-> "h", I |-> "i", J |-> "j", K |-> "k", L |-> "l", M |-> "m", N |-> "n",
   O |-> "o", P |-> "p", Q |-> "q", R |-> "r", S |-> "s", T |-> "t", U |-> "u",
   V |-> "v", W |-> "w", X |-> "x", Y |-> "y", Z |-> "z"]

LowerCh(ch) == IF ch \in DOMAIN LowerMap THEN LowerMap[ch] ELSE ch

\* str.lower
Lower(s) == [i \in 1..Len(s) |-> LowerCh(s[i])]

\* s[i:] with a 1-based first index
Drop(s, i) == SubSeq(s, i, Len(s))

\* s[:n]
Take(s, n) == SubSeq(s, 1, IF n < Len(s) THEN n ELSE Len(s))

\* str.startswith(p) at offset i (1-based): s[i:].startswith(p)
StartsWithAt(s, p, i) ==
  /\ i + Len(p) - 1 <= Len(s)
  /\ \A k \in 1..Len(p) : s[i + k - 1] = p[k]

StartsWith(s, p) == StartsWithAt(s, p, 1)

EndsWith(s, p) == Len(p) <= Len(s) /\ StartsWithAt(s, p, Len(s) - Len(p) + 1)

\* p in s
Contains(s, p) == \E i \in 1..(Len(s) + 1) : StartsWithAt(s, p, i)

\* number of leading / trailing whitespace characters
RECURSIVE LeadingSpaces(_)
LeadingSpaces(s) ==
  IF s = <<>> \/ ~IsSpace(Head(s)) THEN 0 ELSE 1 + LeadingSpaces(Tail(s))

RECURSIVE TrailingSpaces(_)
TrailingSpaces(s) ==
  IF s = <<>> \/ ~IsSpace(s[Len(s)]) THEN 0
  ELSE 1 + TrailingSpaces(SubSeq(s, 1, Len(s) - 1))

\* str.strip()
Strip(s) ==
  IF LeadingSpaces(s) = Len(s) THEN <<>>
  ELSE SubSeq(s, LeadingSpaces(s) + 1, Len(s) - TrailingSpaces(s))

\* index of the first line break of s, 0 when there is none
RECURSIVE FirstBreak(_, _)
FirstBreak(s, i) ==
  IF i > Len(s) THEN 0
  ELSE IF IsLineBreak(s[i]) THEN i ELSE FirstBreak(s, i + 1)

\* str.splitlines(): the lines without their breaks; a final line break
\* does not open a further, empty line
RECURSIVE SplitLines(_)
SplitLines(s) ==
  IF s = <<>> THEN <<>>
  ELSE LET b == FirstBreak(s, 1)
       IN  IF b = 0 THEN <<s>>
           ELSE <<SubSeq(s, 1, b - 1)>> \o SplitLines(Drop(s, b + 1))

\* "\n".join(lines)
RECURSIVE JoinLines(_)
JoinLines(lines) ==
  IF lines = <<>> THEN <<>>
  ELSE IF Len(lines) = 1 THEN lines[1]
  ELSE lines[1] \o <<"\n">> \o JoinLines(Tail(lines))

\* ------------------------------------------------------------------------
\* Commit types
\* ------------------------------------------------------------------------

\* the spelling of each Conventional Commit type
TypeChars ==
  [feat |-> <<"f","e","a","t">>, fix |-> <<"f","i","x">>, docs |-> <<"d","o","c","s">>, style |-> <<"s","t","y","l","e">>,
   refactor |-> <<"r","e","f","a","c","t","o","r">>, test |-> <<"t","e","s","t">>, chore |-> <<"c","h","o","r","e">>,
   perf |-> <<"p","e","r","f">>, ci |-> <<"c","i">>, build |-> <<"b","u","i","l","d">>, revert |-> <<"r","e","v","e","r","t">>,
   other |-> <<"o","t","h","e","r">>]

\* the labels classify_change can return
Categories == DOMAIN TypeChars

\* alternation of any_type_pattern in _normalize_message
AnyTypes ==
  <<"feat", "fix", "docs", "style", "refactor", "test", "chore", "perf", "ci",
    "build", "revert", "other">>

\* alternation of commit_type_pattern in _extract_commit_message (no "other")
CommitTypes ==
  <<"feat", "fix", "docs", "style", "refactor", "test", "chore", "perf", "ci",
    "build", "revert">>

\* re.match(r'^\[?(t1|t2|...)\]?:\s+', s, re.IGNORECASE): the matched type
\* and the length of the match; len = 0 when there is no match.
\* The alternatives are tried in order; no type is a prefix of another.
RECURSIVE FirstTypeAt(_, _, _, _)
FirstTypeAt(lowered, pos, types, k) ==
  IF k > Len(types) THEN "none"
  ELSE IF StartsWithAt(lowered, TypeChars[types[k]], pos) THEN types[k]
  ELSE FirstTypeAt(lowered, pos, types, k + 1)

MatchTypePrefix(s, types) ==
  LET p1 == IF StartsWith(s, <<"[">>) THEN 2 ELSE 1
      t  == FirstTypeAt(Lower(s), p1, types, 1)
      p2 == IF t = "none" THEN p1 ELSE p1 + Len(TypeChars[t])
      p3 == IF StartsWithAt(s, <<"]">>, p2) THEN p2 + 1 ELSE p2
      ws == IF StartsWithAt(s, <<":">>, p3) THEN LeadingSpaces(Drop(s, p3 + 1)) ELSE 0
  IN  IF t # "none" /\ StartsWithAt(s, <<":">>, p3) /\ ws > 0
      THEN [type |-> t, len |-> p3 + ws]
      ELSE [type |-> "none", len |-> 0]

\* re.match(rf'^\[{re.escape(group_type)}\]:\s+', s, re.IGNORECASE)
MatchesExpectedFormat(s, group_type) ==
  LET pre == <<"[">> \o TypeChars[group_type] \o <<"]",":">>
  IN  /\ StartsWith(Lower(s), pre)
      /\ LeadingSpaces(Drop(s, Len(pre) + 1)) > 0

\* ------------------------------------------------------------------------
\* CommitMessageGenerator._normalize_message
\* ------------------------------------------------------------------------

\* outcome of a call: a returned value or a raised exception
Returned(v) == [raised |-> FALSE, value |-> v]
Raised(e) == [raised |-> TRUE, value |-> e]

\* variant: the type is prepended without brackets
Reprefixed_NoBrackets(group_type, subject, lines) ==
  TypeChars[group_type] \o <<":"," ">> \o subject \o <<"\n">> \o JoinLines(Tail(lines))

\* f"[{group_type}]: {subject}\n" + "\n".join(lines[1:])
Reprefixed(group_type, subject, lines) ==
  <<"[">> \o TypeChars[group_type] \o <<"]",":"," ">> \o subject \o <<"\n">> \o JoinLines(Tail(lines))

\* variant: a type prefix of the backend is kept when it names another type
_normalize_message_KeepsBackendType(message, group_type) ==
  IF Strip(message) = <<>> THEN Raised("ValueError")
  ELSE
    LET lines == SplitLines(message)
        subject_line == Strip(lines[1])
        m == MatchTypePrefix(subject_line, AnyTypes)
    IN  IF m.len > 0 THEN Returned(message)
        ELSE Returned(Reprefixed(group_type, subject_line, lines))

_normalize_message(message, group_type) ==
  IF Strip(message) = <<>> THEN Raised("ValueError")
  ELSE
    LET lines == SplitLines(message)
        subject_line == Strip(lines[1])
        m == MatchTypePrefix(subject_line, AnyTypes)
        rest_of_line == Strip(Drop(subject_line, m.len + 1))
    IN  IF m.len > 0
        THEN IF m.type = group_type /\ MatchesExpectedFormat(subject_line, group_type)
             THEN Returned(message)
             ELSE Returned(Reprefixed(group_type, rest_of_line, lines))
        ELSE Returned(Reprefixed(group_type, subject_line, lines))

\* ------------------------------------------------------------------------
\* CommitMessageGenerator._extract_commit_message
\* ------------------------------------------------------------------------

\* phrases that mark thinking process or meta-commentary
thinking_markers ==
  <<<<"l","e","t"," ","m","e">>, <<"i"," ","w","i","l","l">>, <<"i","'","l","l">>, <<"f","i","r","s","t",",">>, <<"b","a","s","e","d"," ","o","n">>, <<"l","o","o","k","i","n","g"," ","a","t">>,
    <<"a","n","a","l","y","z","i","n","g">>, <<"t","h","e"," ","c","h","a","n","g","e","s"," ","s","h","o","w">>, <<"h","e","r","e","'","s"," ","t","h","e">>, <<"h","e","r","e"," ","i","s"," ","t","h","e">>,
    <<"n","o","w"," ","w","r","i","t","e">>, <<"w","r","i","t","i","n","g"," ","t","h","e">>, <<"i"," ","s","e","e"," ","t","h","a","t">>, <<"i"," ","c","a","n"," ","s","e","e">>>>

\* any(marker in text for marker in thinking_markers)
HasMarker(text) ==
  \E k \in 1..Len(thinking_markers) : Contains(text, thinking_markers[k])

\* lower_line[:40]
MetaWindow == 40

\* len(stripped) > 72 is skipped, len(stripped) > 15 is required
SubjectMaxLen == 72
SubjectMinLen == 15

\* next_lines = lines[i+1:i+10]
BodyLookahead == 9

\* first pass: a non-empty line that matches commit_type_pattern and has no
\* marker in its first 40 characters
IsTypedStart(line) ==
  LET stripped == Strip(line)
  IN  /\ stripped # <<>>
      /\ MatchTypePrefix(stripped, CommitTypes).len > 0
      /\ ~HasMarker(Take(Lower(stripped), MetaWindow))

\* has_body_structure: some line after the next one, among the next nine,
\* is not blank
HasBodyStructure(lines, i) ==
  \E j \in 2..BodyLookahead :
     i + j <= Len(lines) /\ Strip(lines[i + j]) # <<>>

\* second pass: a short, substantial line without marker that is followed
\* by a body or is the last line
IsPlainStart(lines, i) ==
  LET stripped == Strip(lines[i])
  IN  /\ stripped # <<>>
      /\ ~HasMarker(Lower(stripped))
      /\ Len(stripped) <= SubjectMaxLen
      /\ Len(stripped) > SubjectMinLen
      /\ ~EndsWith(stripped, <<":">>)
      /\ (HasBodyStructure(lines, i) \/ i = Len(lines))

\* least member of a non-empty set of indexes
MinOf(set) == CHOOSE i \in set : \A j \in set : i <= j

\* variant: the lines before the first typed line are kept
_extract_commit_message_KeepsPreamble(raw_response) ==
  IF Strip(raw_response) = <<>> THEN Raised("ValueError")
  ELSE
    LET lines == SplitLines(raw_response)
        typed == {i \in 1..Len(lines) : IsTypedStart(lines[i])}
        plain == {i \in 1..Len(lines) : IsPlainStart(lines, i)}
    IN  IF typed # {} THEN Returned(Strip(raw_response))
        ELSE IF plain # {}
        THEN Returned(Strip(JoinLines(Drop(lines, MinOf(plain)))))
        ELSE Returned(Strip(raw_response))

\* variant: nothing is returned when no line qualifies as a message start
_extract_commit_message_DropsUnqualified(raw_response) ==
  IF Strip(raw_response) = <<>> THEN Raised("ValueError")
  ELSE
    LET lines == SplitLines(raw_response)
        typed == {i \in 1..Len(lines) : IsTypedStart(lines[i])}
        plain == {i \in 1..Len(lines) : IsPlainStart(lines, i)}
    IN  IF typed # {}
        THEN Returned(Strip(JoinLines(Drop(lines, MinOf(typed)))))
        ELSE IF plain # {}
        THEN Returned(Strip(JoinLines(Drop(lines, MinOf(plain)))))
        ELSE Returned(<<>>)

_extract_commit_message(raw_response) ==
  IF Strip(raw_response) = <<>> THEN Raised("ValueError")
  ELSE
    LET lines == SplitLines(raw_response)
        typed == {i \in 1..Len(lines) : IsTypedStart(lines[i])}
        plain == {i \in 1..Len(lines) : IsPlainStart(lines, i)}
    IN  IF typed # {}
        THEN Returned(Strip(JoinLines(Drop(lines, MinOf(typed)))))
        ELSE IF plain # {}
        THEN Returned(Strip(JoinLines(Drop(lines, MinOf(plain)))))
        ELSE Returned(Strip(raw_response))

\* ------------------------------------------------------------------------
\* strip_thinking_tags and the text OllamaClient.generate returns
\* ------------------------------------------------------------------------

\* the tag pairs of thinking_patterns, in the order of the list
thinking_patterns ==
  <<[open |-> <<"<","t","h","i","n","k",">">>, close |-> <<"<","/","t","h","i","n","k",">">>],
    [open |-> <<"<","t","h","i","n","k","i","n","g",">">>, close |-> <<"<","/","t","h","i","n","k","i","n","g",">">>],
    [open |-> <<"<","t","h","o","u","g","h","t",">">>, close |-> <<"<","/","t","h","o","u","g","h","t",">">>],
    [open |-> <<"<","r","e","a","s","o","n","i","n","g",">">>, close |-> <<"<","/","r","e","a","s","o","n","i","n","g",">">>]>>

\* first index >= from at which p starts in s, 0 when there is none
FindFrom(s, p, from) ==
  LET idx == {i \in from..(Len(s) + 1) : StartsWithAt(s, p, i)}
  IN  IF idx = {} THEN 0 ELSE CHOOSE i \in idx : \A j \in idx : i <= j

\* re.sub(r'<tag>.*?</tag>', '', text, flags=re.DOTALL | re.IGNORECASE):
\* from left to right, every opening tag with the nearest closing tag
\* after it is removed together with the text between them
RECURSIVE RemovePairs(_, _)
RemovePairs(text, pattern) ==
  LET lowered == Lower(text)
      o == FindFrom(lowered, pattern.open, 1)
      c == IF o = 0 THEN 0 ELSE FindFrom(lowered, pattern.close, o + Len(pattern.open))
  IN  IF o = 0 \/ c = 0 THEN text
      ELSE SubSeq(text, 1, o - 1)
           \o RemovePairs(Drop(text, c + Len(pattern.close)), pattern)

\* the loop over thinking_patterns
RECURSIVE RemoveAllPairs(_, _)
RemoveAllPairs(text, patterns) ==
  IF patterns = <<>> THEN text
  ELSE RemoveAllPairs(RemovePairs(text, Head(patterns)), Tail(patterns))

\* variant: only the <think> pair is removed
strip_thinking_tags_OnlyThink(text) ==
  Strip(RemovePairs(text, thinking_patterns[1]))

strip_thinking_tags(text) == Strip(RemoveAllPairs(text, thinking_patterns))

\* OllamaClient.generate, lines 165-168: the "response" field of a 200
\* answer is stripped and filtered
ClientResponse(response) == strip_thinking_tags(Strip(response))

\* ------------------------------------------------------------------------
\* classify_change
\* ------------------------------------------------------------------------

\* regex \w
WordChars ==
  DOMAIN LowerMap \cup {LowerMap[u] : u \in DOMAIN LowerMap}
  \cup {"0", "1", "2", "3", "4", "5", "6", "7", "8", "9", "_"}

IsWordCh(ch) == ch \in WordChars

\* regex \b before position i / after position i - 1 of s
BoundaryAt(s, i) ==
  LET before == i > 1 /\ i - 1 <= Len(s) /\ IsWordCh(s[i - 1])
      after  == i >= 1 /\ i <= Len(s) /\ IsWordCh(s[i])
  IN  before # after

\* re.search(word, s, re.IGNORECASE), with \b before and/or after the word
SearchWord(s, word, bBefore, bAfter) ==
  LET lowered == Lower(s)
  IN  \E i \in 1..(Len(s) + 1) :
     /\ StartsWithAt(lowered, word, i)
     /\ bBefore => BoundaryAt(s, i)
     /\ bAfter => BoundaryAt(s, i + Len(word))

\* str.split("/") of the path
RECURSIVE SplitSlash(_)
SplitSlash(s) ==
  LET IsSlash(ch) == ch = "/"
      idx == {i \in 1..Len(s) : IsSlash(s[i])}
  IN  IF idx = {} THEN <<s>>
      ELSE LET b == CHOOSE i \in idx : \A j \in idx : i <= j
           IN  <<SubSeq(s, 1, b - 1)>> \o SplitSlash(Drop(s, b + 1))

\* Path(file_path).parts: empty and "." segments are dropped
PathParts(file_path) ==
  LET IsPart(seg) == seg # <<>> /\ seg # <<".">>
  IN  SelectSeq(SplitSlash(file_path), IsPart)

\* Path(file_path).name
PathName(file_path) ==
  LET parts == PathParts(file_path)
  IN  IF parts = <<>> THEN <<>> ELSE parts[Len(parts)]

\* Path(file_path).suffix: from the last dot of the name, unless the dot is
\* the first or the last character
PathSuffix(file_path) ==
  LET name == PathName(file_path)
      dots == {i \in 1..Len(name) : name[i] = "."}
      last == CHOOSE i \in dots : \A j \in dots : j <= i
  IN  IF dots = {} THEN <<>>
      ELSE IF 1 < last /\ last < Len(name) THEN Drop(name, last) ELSE <<>>

\* x in path.parts
InParts(file_path, x) ==
  LET parts == PathParts(file_path)
  IN  \E k \in 1..Len(parts) : parts[k] = x

\* re.sub(r"\s", "", ln)
RemoveSpaces(ln) ==
  LET NotSpace(ch) == ~IsSpace(ch)
  IN  SelectSeq(ln, NotSpace)

\* "".join(parts)
RECURSIVE Concat(_)
Concat(parts) == IF parts = <<>> THEN <<>> ELSE Head(parts) \o Concat(Tail(parts))

\* lines starting with + or - but not with ++ or --
ChangedLines(diff) ==
  LET IsChanged(line) ==
        /\ StartsWith(line, <<"+">>) \/ StartsWith(line, <<"-">>)
        /\ ~(StartsWith(line, <<"+","+">>) \/ StartsWith(line, <<"-","-">>))
  IN  SelectSeq(SplitLines(diff), IsChanged)

\* variant: only changes of blank lines are style changes
IsStyleChange_BlankOnly(diff) ==
  LET changed_lines == ChangedLines(diff)
  IN  /\ changed_lines # <<>>
      /\ \A k \in 1..Len(changed_lines) : RemoveSpaces(Tail(changed_lines[k])) = <<>>

\* the whitespace-only rule of classify_change
IsStyleChange(diff) ==
  LET changed_lines == ChangedLines(diff)
      IsMinus(line) == StartsWith(line, <<"-">>)
      IsPlus(line) == StartsWith(line, <<"+">>)
      minus_lines == SelectSeq(changed_lines, IsMinus)
      plus_lines == SelectSeq(changed_lines, IsPlus)
      norm_minus == Concat([k \in 1..Len(minus_lines) |-> RemoveSpaces(Tail(minus_lines[k]))])
      norm_plus == Concat([k \in 1..Len(plus_lines) |-> RemoveSpaces(Tail(plus_lines[k]))])
  IN  /\ changed_lines # <<>>
      /\ \/ minus_lines # <<>> /\ plus_lines # <<>> /\ norm_minus = norm_plus
         \/ \A k \in 1..Len(changed_lines) : RemoveSpaces(Tail(changed_lines[k])) = <<>>

\* r"\bfix(e[ds])?|bug|error|issue|patch|hotfix\b"
HasFixKeyword(diff) ==
  \/ SearchWord(diff, <<"f","i","x">>, TRUE, FALSE)
  \/ SearchWord(diff, <<"b","u","g">>, FALSE, FALSE)
  \/ SearchWord(diff, <<"e","r","r","o","r">>, FALSE, FALSE)
  \/ SearchWord(diff, <<"i","s","s","u","e">>, FALSE, FALSE)
  \/ SearchWord(diff, <<"p","a","t","c","h">>, FALSE, FALSE)
  \/ SearchWord(diff, <<"h","o","t","f","i","x">>, FALSE, TRUE)

\* variant: a change no rule matches gets no category of the set
classify_change_NoDefault(file_path, diff) ==
  LET ext == Lower(PathSuffix(file_path))
      name == PathName(file_path)
  IN  IF ext \in {<<".","m","d">>, <<".","r","s","t">>, <<".","t","x","t">>, <<".","a","d","o","c">>} THEN "docs"
      ELSE IF \/ StartsWith(name, <<"t","e","s","t","_">>)
              \/ EndsWith(name, <<"_","t","e","s","t",".","p","y">>)
              \/ InParts(file_path, <<"t","e","s","t","s">>)
      THEN "test"
      ELSE IF \/ name \in {<<"D","o","c","k","e","r","f","i","l","e">>, <<"d","o","c","k","e","r","-","c","o","m","p","o","s","e",".","y","m","l">>}
              \/ PathSuffix(file_path) \in {<<".","y","a","m","l">>, <<".","y","m","l">>}
      THEN IF InParts(file_path, <<".","g","i","t","h","u","b">>) THEN "ci" ELSE "build"
      ELSE IF IsStyleChange(diff) THEN "style"
      ELSE IF HasFixKeyword(diff) THEN "fix"
      ELSE IF SearchWord(diff, <<"r","e","f","a","c","t","o","r">>, TRUE, TRUE) THEN "refactor"
      ELSE IF \/ SearchWord(diff, <<"p","e","r","f">>, TRUE, TRUE)
              \/ SearchWord(diff, <<"p","e","r","f","o","r","m","a","n","c","e">>, TRUE, TRUE)
      THEN "perf"
      ELSE IF \/ SearchWord(diff, <<"f","e","a","t">>, TRUE, TRUE)
              \/ SearchWord(diff, <<"f","e","a","t","u","r","e">>, TRUE, TRUE)
      THEN "feat"
      ELSE IF /\ \/ SearchWord(diff, <<"c","l","a","s","s">>, TRUE, TRUE)
                 \/ SearchWord(diff, <<"d","e","f">>, TRUE, TRUE)
                 \/ SearchWord(diff, <<"f","u","n","c","t","i","o","n">>, TRUE, TRUE)
              /\ Contains(diff, <<"+">>)
      THEN "feat"
      ELSE "unknown"

\* variant: the test rule is evaluated before the docs rule
classify_change_TestBeforeDocs(file_path, diff) ==
  LET ext == Lower(PathSuffix(file_path))
      name == PathName(file_path)
  IN  IF \/ StartsWith(name, <<"t","e","s","t","_">>)
         \/ EndsWith(name, <<"_","t","e","s","t",".","p","y">>)
         \/ InParts(file_path, <<"t","e","s","t","s">>)
      THEN "test"
      ELSE IF ext \in {<<".","m","d">>, <<".","r","s","t">>, <<".","t","x","t">>, <<".","a","d","o","c">>} THEN "docs"
      ELSE IF \/ name \in {<<"D","o","c","k","e","r","f","i","l","e">>, <<"d","o","c","k","e","r","-","c","o","m","p","o","s","e",".","y","m","l">>}
              \/ PathSuffix(file_path) \in {<<".","y","a","m","l">>, <<".","y","m","l">>}
      THEN IF InParts(file_path, <<".","g","i","t","h","u","b">>) THEN "ci" ELSE "build"
      ELSE IF IsStyleChange(diff) THEN "style"
      ELSE IF HasFixKeyword(diff) THEN "fix"
      ELSE IF SearchWord(diff, <<"r","e","f","a","c","t","o","r">>, TRUE, TRUE) THEN "refactor"
      ELSE IF \/ SearchWord(diff, <<"p","e","r","f">>, TRUE, TRUE)
              \/ SearchWord(diff, <<"p","e","r","f","o","r","m","a","n","c","e">>, TRUE, TRUE)
      THEN "perf"
      ELSE IF \/ SearchWord(diff, <<"f","e","a","t">>, TRUE, TRUE)
              \/ SearchWord(diff, <<"f","e","a","t","u","r","e">>, TRUE, TRUE)
      THEN "feat"
      ELSE IF /\ \/ SearchWord(diff, <<"c","l","a","s","s">>, TRUE, TRUE)
                 \/ SearchWord(diff, <<"d","e","f">>, TRUE, TRUE)
                 \/ SearchWord(diff, <<"f","u","n","c","t","i","o","n">>, TRUE, TRUE)
              /\ Contains(diff, <<"+">>)
      THEN "feat"
      ELSE "other"

\* variant: build and CI files are build wherever they are
classify_change_AlwaysBuild(file_path, diff) ==
  LET ext == Lower(PathSuffix(file_path))
      name == PathName(file_path)
  IN  IF ext \in {<<".","m","d">>, <<".","r","s","t">>, <<".","t","x","t">>, <<".","a","d","o","c">>} THEN "docs"
      ELSE IF \/ StartsWith(name, <<"t","e","s","t","_">>)
              \/ EndsWith(name, <<"_","t","e","s","t",".","p","y">>)
              \/ InParts(file_path, <<"t","e","s","t","s">>)
      THEN "test"
      ELSE IF \/ name \in {<<"D","o","c","k","e","r","f","i","l","e">>, <<"d","o","c","k","e","r","-","c","o","m","p","o","s","e",".","y","m","l">>}
              \/ PathSuffix(file_path) \in {<<".","y","a","m","l">>, <<".","y","m","l">>}
      THEN "build"
      ELSE IF IsStyleChange(diff) THEN "style"
      ELSE IF HasFixKeyword(diff) THEN "fix"
      ELSE IF SearchWord(diff, <<"r","e","f","a","c","t","o","r">>, TRUE, TRUE) THEN "refactor"
      ELSE IF \/ SearchWord(diff, <<"p","e","r","f">>, TRUE, TRUE)
              \/ SearchWord(diff, <<"p","e","r","f","o","r","m","a","n","c","e">>, TRUE, TRUE)
      THEN "perf"
      ELSE IF \/ SearchWord(diff, <<"f","e","a","t">>, TRUE, TRUE)
              \/ SearchWord(diff, <<"f","e","a","t","u","r","e">>, TRUE, TRUE)
      THEN "feat"
      ELSE IF /\ \/ SearchWord(diff, <<"c","l","a","s","s">>, TRUE, TRUE)
                 \/ SearchWord(diff, <<"d","e","f">>, TRUE, TRUE)
                 \/ SearchWord(diff, <<"f","u","n","c","t","i","o","n">>, TRUE, TRUE)
              /\ Contains(diff, <<"+">>)
      THEN "feat"
      ELSE "other"

classify_change(file_path, diff) ==
  LET ext == Lower(PathSuffix(file_path))
      name == PathName(file_path)
  IN  IF ext \in {<<".","m","d">>, <<".","r","s","t">>, <<".","t","x","t">>, <<".","a","d","o","c">>} THEN "docs"
      ELSE IF \/ StartsWith(name, <<"t","e","s","t","_">>)
              \/ EndsWith(name, <<"_","t","e","s","t",".","p","y">>)
              \/ InParts(file_path, <<"t","e","s","t","s">>)
      THEN "test"
      ELSE IF \/ name \in {<<"D","o","c","k","e","r","f","i","l","e">>, <<"d","o","c","k","e","r","-","c","o","m","p","o","s","e",".","y","m","l">>}
              \/ PathSuffix(file_path) \in {<<".","y","a","m","l">>, <<".","y","m","l">>}
      THEN IF InParts(file_path, <<".","g","i","t","h","u","b">>) THEN "ci" ELSE "build"
      ELSE IF IsStyleChange(diff) THEN "style"
      ELSE IF HasFixKeyword(diff) THEN "fix"
      ELSE IF SearchWord(diff, <<"r","e","f","a","c","t","o","r">>, TRUE, TRUE) THEN "refactor"
      ELSE IF \/ SearchWord(diff, <<"p","e","r","f">>, TRUE, TRUE)
              \/ SearchWord(diff, <<"p","e","r","f","o","r","m","a","n","c","e">>, TRUE, TRUE)
      THEN "perf"
      ELSE IF \/ SearchWord(diff, <<"f","e","a","t">>, TRUE, TRUE)
              \/ SearchWord(diff, <<"f","e","a","t","u","r","e">>, TRUE, TRUE)
      THEN "feat"
      ELSE IF /\ \/ SearchWord(diff, <<"c","l","a","s","s">>, TRUE, TRUE)
                 \/ SearchWord(diff, <<"d","e","f">>, TRUE, TRUE)
                 \/ SearchWord(diff, <<"f","u","n","c","t","i","o","n">>, TRUE, TRUE)
              /\ Contains(diff, <<"+">>)
      THEN "feat"
      ELSE "other"

\* ------------------------------------------------------------------------
\* CommitMessageGenerator.generate_groups
\* ------------------------------------------------------------------------

VARIABLES
  diffs,          \* Dict[str, str] in insertion order: <<[path, diff], ...>>
  pc,             \* position in generate_groups
  groups,         \* Dict[str, List[str]] in insertion order: <<[type, files], ...>>
  commit_groups,  \* List[CommitGroup] built so far
  backend_calls,  \* calls of ollama_client.generate so far, with their outcome
  fn_message,     \* argument of a direct call of _normalize_message
  fn_type,        \* group_type of that call
  fn_out,         \* outcomes of the call and of the call on its own result
  fn_pc,          \* position of the direct caller
  yes,            \* main: the --yes flag
  detected_vcs,   \* main: "git" or "svn", "none" before detection
  changes,        \* main: List[FileChange], the paths of client.get_changes()
  head,           \* the branch the working copy is on
  branch,         \* main: (branch_created, branch_name), attempts made so far
  accepted_groups,   \* main: List[Tuple[CommitGroup, str]] as <<[group, message], ...>>
  declined_groups,   \* main: List[CommitGroup] as indexes of the groups
  main_calls,     \* main: calls made on the VCS client, load_config and the
                  \* generator so far, with their outcome
  prompts,        \* questions put to the user so far
  exit_code,      \* the code main ended with, NoExit while it runs
  summary_printed \* main: the final summary has been printed

vars ==
  <<diffs, pc, groups, commit_groups, backend_calls,
    fn_message, fn_type, fn_out, fn_pc,
    yes, detected_vcs, changes, head, branch, accepted_groups, declined_groups,
    main_calls, prompts, exit_code, summary_printed>>

pipeline_vars == <<diffs, pc, groups, commit_groups, backend_calls>>
fn_vars == <<fn_message, fn_type, fn_out, fn_pc>>
main_vars ==
  <<yes, detected_vcs, changes, head, branch, accepted_groups, declined_groups,
    main_calls, prompts, exit_code, summary_printed>>

\* exit_code while main has not ended
NoExit == -1

\* the branch of the working copy when main starts
StartBranch == <<"m","a","i","n">>

\* (branch_created, branch_name) before prompt_for_branch_creation returns
NoBranch == [created |-> FALSE, name |-> <<>>, attempts |-> 0]

\* the variables of main when main does not run
MainIdle ==
  /\ yes = FALSE
  /\ detected_vcs = "none"
  /\ changes = <<>>
  /\ head = StartBranch
  /\ branch = NoBranch
  /\ accepted_groups = <<>>
  /\ declined_groups = <<>>
  /\ main_calls = <<>>
  /\ prompts = <<>>
  /\ exit_code = NoExit
  /\ summary_printed = FALSE

\* str(n) for a natural number
Digit(n) == <<"0", "1", "2", "3", "4", "5", "6", "7", "8", "9">>[n + 1]

RECURSIVE IntToStr(_)
IntToStr(n) == IF n < 10 THEN <<Digit(n)>> ELSE IntToStr(n \div 10) \o <<Digit(n % 10)>>

\* the fixed sentence of the fallback message
FallbackDescription ==
  <<"U","p","d","a","t","e","d"," ","t","h","e"," ","f","o","l","l","o","w","i","n","g"," ","f","i","l","e","s"," ","t","o"," ","a","d","d","r","e","s","s"," ","f","u","n","c","t","i","o","n","a","l","i","t","y"," ","i","m","p","r","o","v","e","m","e","n","t","s"," ","a","n","d"," ">>
  \o <<"m","a","i","n","t","a","i","n"," ","c","o","d","e"," ","q","u","a","l","i","t","y","."," ","R","e","v","i","e","w"," ","t","h","e"," ","a","f","f","e","c","t","e","d"," ","f","i","l","e","s"," ","f","o","r"," ","s","p","e","c","i","f","i","c"," ","c","h","a","n","g","e","s",".">>

\* variant: the subject always says "files"
FallbackMessage_AlwaysPlural(group_type, files) ==
  LET subject == <<"[">> \o TypeChars[group_type] \o <<"]",":"," ","C","h","a","n","g","e","s"," ","t","o"," ">>
                 \o IntToStr(Len(files)) \o <<" ","f","i","l","e","s">>
      body_lines == [k \in 1..Len(files) |-> <<"-"," ">> \o files[k]]
  IN  subject \o <<"\n","\n">> \o FallbackDescription \o <<"\n","\n">> \o JoinLines(body_lines)

\* the message built in the except branch of generate_groups
FallbackMessage(group_type, files) ==
  LET subject == <<"[">> \o TypeChars[group_type] \o <<"]",":"," ","C","h","a","n","g","e","s"," ","t","o"," ">>
                 \o IntToStr(Len(files)) \o <<" ","f","i","l","e">>
                 \o (IF Len(files) # 1 THEN <<"s">> ELSE <<>>)
      body_lines == [k \in 1..Len(files) |-> <<"-"," ">> \o files[k]]
  IN  subject \o <<"\n","\n">> \o FallbackDescription \o <<"\n","\n">> \o JoinLines(body_lines)

\* variant: the answer is taken as the message without extraction's and
\* normalization's checks
TryBlock_Unchecked(group_type, files, outcome) ==
  IF outcome.raised THEN outcome ELSE Returned(Strip(outcome.value))

\* variant: the extracted text is not normalized
TryBlock_NoNormalize(group_type, files, outcome) ==
  IF outcome.raised THEN outcome ELSE _extract_commit_message(outcome.value)

\* lines 289-294, the try block for one backend outcome: the message, or
\* the exception that leaves the block
TryBlock(group_type, files, outcome) ==
  IF outcome.raised THEN outcome
  ELSE LET extracted == _extract_commit_message(outcome.value)
       IN  IF extracted.raised THEN extracted
           ELSE _normalize_message(extracted.value, group_type)

\* variant: except LLMError
IsCaught_OnlyLLMError(exc) == exc = "LLMError"

\* except (LLMError, Exception): every exception the block can raise is an
\* Exception
IsCaught(exc) == exc \in {"LLMError", "Exception", "ValueError"}

\* diffs[file]
DiffOf(d, file) == (CHOOSE k \in 1..Len(d) : d[k].path = file)

\* index of the bucket of commit_type in groups, 0 when there is none
GroupIndex(g, commit_type) ==
  IF \E k \in 1..Len(g) : g[k].type = commit_type
  THEN CHOOSE k \in 1..Len(g) : g[k].type = commit_type
  ELSE 0

\* variant: groups[commit_type] = [file_path]
SetDefaultAppend_Overwrite(g, commit_type, file_path) ==
  LET k == GroupIndex(g, commit_type)
  IN  IF k = 0 THEN Append(g, [type |-> commit_type, files |-> <<file_path>>])
      ELSE [g EXCEPT ![k].files = <<file_path>>]

\* variant: groups.setdefault(commit_type, []).insert(0, file_path)
SetDefaultAppend_Prepend(g, commit_type, file_path) ==
  LET k == GroupIndex(g, commit_type)
  IN  IF k = 0 THEN Append(g, [type |-> commit_type, files |-> <<file_path>>])
      ELSE [g EXCEPT ![k].files = <<file_path>> \o @]

\* groups.setdefault(commit_type, []).append(file_path)
SetDefaultAppend(g, commit_type, file_path) ==
  LET k == GroupIndex(g, commit_type)
  IN  IF k = 0 THEN Append(g, [type |-> commit_type, files |-> <<file_path>>])
      ELSE [g EXCEPT ![k].files = Append(@, file_path)]

\* the classification loop over diffs.items()
RECURSIVE ClassifyAll(_, _)
ClassifyAll(d, g) ==
  IF d = <<>> THEN g
  ELSE ClassifyAll(Tail(d),
                   SetDefaultAppend(g, classify_change(Head(d).path, Head(d).diff),
                                    Head(d).path))

\* the changed files the runs are drawn from
FileChanges ==
  { [path |-> <<"R","E","A","D","M","E",".","m","d">>, diff |-> <<>>],
    [path |-> <<"t","e","s","t","s","/","a",".","p","y">>, diff |-> <<"+","d","e","f"," ","t">>],
    [path |-> <<"a",".","p","y">>, diff |-> <<"+","f","i","x"," ","x">>],
    [path |-> <<"b",".","p","y">>, diff |-> <<"-","b","u","g","\n","+","y">>],
    [path |-> <<"t","e","s","t","_","b",".","p","y">>, diff |-> <<"+","d","e","f"," ","f">>] }

\* most files of one run
MaxFiles == 3

\* the diff maps of the runs: every order of up to MaxFiles distinct files
DiffMaps ==
  LET Distinct(d) == \A i, j \in 1..Len(d) : i # j => d[i].path # d[j].path
  IN  {d \in UNION {[1..n -> FileChanges] : n \in 0..MaxFiles} : Distinct(d)}

\* what the backend answers to one prompt
Responses ==
  { <<>>,
    <<" ","\n">>,
    <<"[","f","i","x","]",":"," ","a","\n","\n","b">>,
    <<"f","e","a","t",":"," ","a","d","d">>,
    <<"[","F","I","X","]",":","\t","a","d","d">>,
    <<"l","e","t"," ","m","e","\n","\n","[","d","o","c","s","]",":"," ","a">>,
    <<"a","b","c">> }

\* ollama_client.generate either returns a text or raises
BackendOutcomes ==
  {Raised("LLMError"), Raised("Exception")} \cup {Returned(r) : r \in Responses}

Init ==
  /\ diffs \in DiffMaps
  /\ pc = "classify"
  /\ groups = <<>>
  /\ commit_groups = <<>>
  /\ backend_calls = <<>>
  /\ fn_message = <<>>
  /\ fn_type = "other"
  /\ fn_out = <<>>
  /\ fn_pc = "idle"
  /\ MainIdle

\* lines 282-285: every file is classified and appended to its bucket
Classify ==
  /\ pc = "classify"
  /\ groups' = ClassifyAll(diffs, <<>>)
  /\ pc' = "generate"
  /\ UNCHANGED <<diffs, commit_groups, backend_calls, fn_vars, main_vars>>

\* variant: a failed backend call is repeated once before the group is
\* finished
Generate_RetryOnFailure ==
  /\ pc = "generate"
  /\ Len(commit_groups) < Len(groups)
  /\ LET g == groups[Len(commit_groups) + 1]
         Call(outcome) == [group_type |-> g.type, files |-> g.files, outcome |-> outcome]
     IN  \E first, outcome \in BackendOutcomes :
           LET result == TryBlock(g.type, g.files, outcome)
               message == IF result.raised THEN FallbackMessage(g.type, g.files)
                          ELSE result.value
           IN  /\ backend_calls' =
                    IF first.raised
                    THEN backend_calls \o <<Call(first), Call(outcome)>>
                    ELSE Append(backend_calls, Call(outcome))
               /\ commit_groups' =
                    Append(commit_groups,
                           [type |-> g.type, files |-> g.files, message |-> message,
                            diffs |-> [k \in 1..Len(g.files) |->
                                         diffs[DiffOf(diffs, g.files[k])]]])
  /\ UNCHANGED <<diffs, pc, groups, fn_vars, main_vars>>

\* lines 287-314: one iteration of the loop over groups.items(); an
\* exception that the except clause does not catch leaves generate_groups
Generate ==
  /\ pc = "generate"
  /\ Len(commit_groups) < Len(groups)
  /\ LET g == groups[Len(commit_groups) + 1]
     IN  \E outcome \in BackendOutcomes :
           LET result == TryBlock(g.type, g.files, outcome)
               message == IF result.raised THEN FallbackMessage(g.type, g.files)
                          ELSE result.value
           IN  /\ backend_calls' =
                    Append(backend_calls,
                           [group_type |-> g.type, files |-> g.files, outcome |-> outcome])
               /\ IF result.raised /\ ~IsCaught(result.value)
                  THEN /\ pc' = "raised"
                       /\ UNCHANGED commit_groups
                  ELSE /\ pc' = pc
                       /\ commit_groups' =
                            Append(commit_groups,
                                   [type |-> g.type,
                                    files |-> g.files,
                                    message |-> message,
                                    diffs |-> [k \in 1..Len(g.files) |->
                                                 diffs[DiffOf(diffs, g.files[k])]]])
  /\ UNCHANGED <<diffs, groups, fn_vars, main_vars>>

\* line 315: return commit_groups
Return ==
  /\ pc = "generate"
  /\ Len(commit_groups) = Len(groups)
  /\ pc' = "done"
  /\ UNCHANGED <<diffs, groups, commit_groups, backend_calls, fn_vars, main_vars>>

Next == Classify \/ Generate \/ Return

Spec == Init /\ [][Next]_vars

\* ------------------------------------------------------------------------
\* _normalize_message called on arbitrary texts, then on its own result
\* ------------------------------------------------------------------------

\* pieces the texts are made of
NormFrags == {<<"[","f","i","x","]">>, <<"f","i","x">>, <<"[","F","I","X","]">>, <<"d","o","c","s">>, <<":">>, <<" ">>, <<"\n">>, <<"a">>}

\* most pieces of one text
MaxFrags == 4

NormMessages == {Concat(fs) : fs \in UNION {[1..n -> NormFrags] : n \in 0..MaxFrags}}

NormTypes == {"fix", "docs"}

InitNormalize ==
  /\ diffs = <<>>
  /\ pc = "idle"
  /\ groups = <<>>
  /\ commit_groups = <<>>
  /\ backend_calls = <<>>
  /\ fn_message \in NormMessages
  /\ fn_type \in NormTypes
  /\ fn_out = <<>>
  /\ fn_pc = "start"
  /\ MainIdle

NormalizeCall ==
  /\ fn_pc = "start"
  /\ fn_out' = <<_normalize_message(fn_message, fn_type)>>
  /\ fn_pc' = "once"
  /\ UNCHANGED <<fn_message, fn_type, pipeline_vars, main_vars>>

NormalizeAgain ==
  /\ fn_pc = "once"
  /\ ~fn_out[1].raised
  /\ fn_out' = Append(fn_out, _normalize_message(fn_out[1].value, fn_type))
  /\ fn_pc' = "twice"
  /\ UNCHANGED <<fn_message, fn_type, pipeline_vars, main_vars>>

NextNormalize == NormalizeCall \/ NormalizeAgain

SpecNormalize == InitNormalize /\ [][NextNormalize]_vars

\* ------------------------------------------------------------------------
\* A backend answer on its way through the client, _extract_commit_message
\* and _normalize_message
\* ------------------------------------------------------------------------

\* pieces of the answers with thinking tags
ThinkFrags ==
  {<<"<","t","h","i","n","k",">">>, <<"<","/","t","h","i","n","k",">">>, <<"<","T","H","I","N","K","I","N","G",">">>, <<"<","/","t","h","i","n","k","i","n","g",">">>, <<"<","t","h","o","u","g","h","t",">">>,
   <<"<","/","t","h","o","u","g","h","t",">">>, <<"<","r","e","a","s","o","n","i","n","g",">">>, <<"<","/","r","e","a","s","o","n","i","n","g",">">>, <<"r">>}

\* most pieces before the message of such an answer
MaxThinkFrags == 3

\* what follows the pieces
ThinkMessages == {<<>>, <<"[","f","i","x","]",":"," ","a"," ","X","\n","\n","B","o","d","y",".">>}

ThinkTexts ==
  {Concat(fs) \o m : fs \in UNION {[1..n -> ThinkFrags] : n \in 0..MaxThinkFrags},
                     m \in ThinkMessages}

\* lines of the answers without thinking tags
ExtractLines ==
  {<<>>, <<"f","i","x",":"," ","a">>, <<"[","d","o","c","s","]",":"," ","b">>, <<"l","e","t"," ","m","e"," ","f","i","x",":"," ","a">>, <<"f","i","x",":"," ","l","e","t"," ","m","e">>,
   <<"H","e","r","e","'","s"," ","t","h","e"," ","c","o","m","m","i","t"," ","m","e","s","s","a","g","e",":">>, <<"p","l","a","i","n"," ","s","u","b","j","e","c","t"," ","l","i","n","e">>, <<"s","h","o","r","t">>,
   <<" "," ","[","f","e","a","t","]",":"," ","c"," ">>}

\* most lines of such an answer
MaxExtractLines == 3

ExtractTexts ==
  {JoinLines(ls) : ls \in UNION {[1..n -> ExtractLines] : n \in 0..MaxExtractLines}}

\* lines of the answers in which no line has a type prefix
PlainLines == {<<>>, <<"p","l","a","i","n"," ","s","u","b","j","e","c","t"," ","l","i","n","e">>, <<"s","h","o","r","t">>}

\* most lines of such an answer
MaxPlainLines == 4

PlainTexts ==
  {JoinLines(ls) : ls \in UNION {[1..n -> PlainLines] : n \in 0..MaxPlainLines}}

InitExtract ==
  /\ diffs = <<>>
  /\ pc = "idle"
  /\ groups = <<>>
  /\ commit_groups = <<>>
  /\ backend_calls = <<>>
  /\ fn_message \in ThinkTexts \cup ExtractTexts \cup PlainTexts
  /\ fn_type \in NormTypes
  /\ fn_out = <<>>
  /\ fn_pc = "server"
  /\ MainIdle

\* the text is the server's answer and OllamaClient.generate returns it
ClientReturn ==
  /\ fn_pc = "server"
  /\ fn_out' = <<Returned(ClientResponse(fn_message))>>
  /\ fn_pc' = "client"
  /\ UNCHANGED <<fn_message, fn_type, pipeline_vars, main_vars>>

\* the text is returned as it is by a backend other than OllamaClient
\* (the Mock and DummyLLM backends of the tests)
MockReturn ==
  /\ fn_pc = "server"
  /\ fn_out' = <<Returned(fn_message)>>
  /\ fn_pc' = "mock"
  /\ UNCHANGED <<fn_message, fn_type, pipeline_vars, main_vars>>

\* line 292: message = self._extract_commit_message(raw_message)
ExtractCall ==
  /\ fn_pc \in {"client", "mock"}
  /\ Len(fn_out) = 1
  /\ fn_out' = Append(fn_out, _extract_commit_message(fn_out[1].value))
  /\ UNCHANGED <<fn_message, fn_type, fn_pc, pipeline_vars, main_vars>>

\* line 294: message = self._normalize_message(message, group_type)
NormalizeExtracted ==
  /\ fn_pc \in {"client", "mock"}
  /\ Len(fn_out) = 2
  /\ ~fn_out[2].raised
  /\ fn_out' = Append(fn_out, _normalize_message(fn_out[2].value, fn_type))
  /\ UNCHANGED <<fn_message, fn_type, fn_pc, pipeline_vars, main_vars>>

NextExtract == ClientReturn \/ MockReturn \/ ExtractCall \/ NormalizeExtracted

SpecExtract == InitExtract /\ [][NextExtract]_vars

\* ------------------------------------------------------------------------
\* strip_thinking_tags on one text, and on its own output
\* ------------------------------------------------------------------------

\* pieces of texts with whole and split tags
StripFrags ==
  {<<"<","t","h","i">>, <<"n","k",">">>, <<"<","t","h","i","n","k",">">>, <<"<","/","t","h","i","n","k",">">>, <<"<","t","h","o","u","g","h","t",">">>, <<"<","/","T","H","O","U","G","H","T",">">>, <<"x">>}

\* most pieces of a text
MaxStripFrags == 5

StripTexts ==
  {Concat(fs) : fs \in UNION {[1..n -> StripFrags] : n \in 0..MaxStripFrags}}

InitStrip ==
  /\ diffs = <<>>
  /\ pc = "idle"
  /\ groups = <<>>
  /\ commit_groups = <<>>
  /\ backend_calls = <<>>
  /\ fn_message \in StripTexts
  /\ fn_type = "other"
  /\ fn_out = <<>>
  /\ fn_pc = "start"
  /\ MainIdle

StripCall ==
  /\ fn_pc = "start"
  /\ fn_out' = <<Returned(strip_thinking_tags(fn_message))>>
  /\ fn_pc' = "once"
  /\ UNCHANGED <<fn_message, fn_type, pipeline_vars, main_vars>>

StripAgain ==
  /\ fn_pc = "once"
  /\ fn_out' = Append(fn_out, Returned(strip_thinking_tags(fn_out[1].value)))
  /\ fn_pc' = "twice"
  /\ UNCHANGED <<fn_message, fn_type, pipeline_vars, main_vars>>

NextStrip == StripCall \/ StripAgain

SpecStrip == InitStrip /\ [][NextStrip]_vars

\* ------------------------------------------------------------------------
\* classify_change on one file
\* ------------------------------------------------------------------------

\* directories of the classified paths
ClassifyDirs ==
  {<<>>, <<"t","e","s","t","s","/">>, <<".","g","i","t","h","u","b","/","w","o","r","k","f","l","o","w","s","/">>, <<"s","r","c","/">>, <<".","g","i","t","h","u","b","/","t","e","s","t","s","/">>}

\* file names of the classified paths
ClassifyNames ==
  {<<>>, <<"R","E","A","D","M","E",".","m","d">>, <<"a",".","T","X","T">>, <<"t","e","s","t","_","a",".","p","y">>, <<"a","_","t","e","s","t",".","p","y">>, <<"a","_","t","e","s","t",".","g","o">>,
   <<"D","o","c","k","e","r","f","i","l","e">>, <<"d","o","c","k","e","r","-","c","o","m","p","o","s","e",".","y","m","l">>, <<"c","i",".","y","m","l">>, <<"a",".","y","a","m","l">>, <<"a",".","Y","M","L">>,
   <<"a",".","p","y">>}

ClassifyPaths == {d \o n : d \in ClassifyDirs, n \in ClassifyNames}

\* lines of the diffs with and without keywords
KeywordLines ==
  {<<>>, <<"+">>, <<"+","x">>, <<"+","f","i","x">>, <<"+","f","e","a","t","u","r","e">>, <<"+","r","e","f","a","c","t","o","r">>, <<"+","p","e","r","f">>,
   <<"+","d","e","f"," ","f">>, <<" ","c","l","a","s","s">>, <<"-","p","r","e","f","i","x">>}

\* most lines of such a diff
MaxKeywordLines == 2

KeywordDiffs ==
  {JoinLines(ls) : ls \in UNION {[1..n -> KeywordLines] : n \in 0..MaxKeywordLines}}

\* lines of the diffs that remove and add lines
StyleLines == {<<"-","a">>, <<"+","a">>, <<"-","b">>, <<"+"," ","b">>, <<"-","f","i","x">>, <<"+","f","i","x"," ">>}

\* most lines of such a diff
MaxStyleLines == 4

StyleDiffs ==
  {JoinLines(ls) : ls \in UNION {[1..n -> StyleLines] : n \in 0..MaxStyleLines}}

\* the paths these diffs are classified for
StylePaths == {<<"a",".","p","y">>, <<"R","E","A","D","M","E",".","m","d">>, <<"t","e","s","t","s","/","a",".","p","y">>, <<"c","i",".","y","m","l">>}

InitClassify ==
  /\ \/ \E p \in ClassifyPaths, d \in KeywordDiffs : diffs = <<[path |-> p, diff |-> d]>>
     \/ \E p \in StylePaths, d \in StyleDiffs : diffs = <<[path |-> p, diff |-> d]>>
  /\ pc = "classify"
  /\ groups = <<>>
  /\ commit_groups = <<>>
  /\ backend_calls = <<>>
  /\ fn_message = <<>>
  /\ fn_type = "other"
  /\ fn_out = <<>>
  /\ fn_pc = "idle"
  /\ MainIdle

NextClassify == Classify

SpecClassify == InitClassify /\ [][NextClassify]_vars

\* ------------------------------------------------------------------------
\* extract_diffs
\* ------------------------------------------------------------------------

\* one call made on the VCS client, or on another collaborator of main
Call(op, files, message, set_upstream, outcome) ==
  [op |-> op, files |-> files, message |-> message,
   set_upstream |-> set_upstream, outcome |-> outcome]

\* the calls of one method among the calls made so far
CallsOf(ops) ==
  LET IsOp(c) == c.op \in ops
  IN  SelectSeq(main_calls, IsOp)

\* client.get_diff(file_path): the diff of the file in the working copy,
\* or an exception
DiffOutcomes(file_path) ==
  {Returned(f.diff) : f \in {g \in FileChanges : g.path = file_path}}
  \cup {Raised("Exception")}

\* index of the key in the dict, 0 when it is not a key
KeyIndex(d, file_path) ==
  IF \E k \in 1..Len(d) : d[k].path = file_path
  THEN CHOOSE k \in 1..Len(d) : d[k].path = file_path
  ELSE 0

\* diffs[file_path] = diff
DictSet(d, file_path, diff) ==
  IF KeyIndex(d, file_path) = 0
  THEN Append(d, [path |-> file_path, diff |-> diff])
  ELSE [d EXCEPT ![KeyIndex(d, file_path)].diff = diff]

\* variant: a file whose diff cannot be obtained gets no entry
GetDiff_SkipsFailed ==
  /\ pc = "extract_diffs"
  /\ Len(CallsOf({"get_diff"})) < Len(changes)
  /\ LET file_path == changes[Len(CallsOf({"get_diff"})) + 1]
     IN  \E outcome \in DiffOutcomes(file_path) :
           /\ main_calls' = Append(main_calls,
                                  Call("get_diff", <<file_path>>, <<>>, FALSE, outcome))
           /\ diffs' = IF outcome.raised THEN diffs
                       ELSE DictSet(diffs, file_path, outcome.value)
  /\ UNCHANGED <<pc, groups, commit_groups, backend_calls, fn_vars, yes,
                 detected_vcs, changes, head, branch, accepted_groups,
                 declined_groups, prompts, exit_code, summary_printed>>

\* lines 39-50: one iteration of the loop over the changes
GetDiff ==
  /\ pc = "extract_diffs"
  /\ Len(CallsOf({"get_diff"})) < Len(changes)
  /\ LET file_path == changes[Len(CallsOf({"get_diff"})) + 1]
     IN  \E outcome \in DiffOutcomes(file_path) :
           /\ main_calls' = Append(main_calls,
                                  Call("get_diff", <<file_path>>, <<>>, FALSE, outcome))
           /\ diffs' = DictSet(diffs, file_path,
                               IF outcome.raised THEN <<>> ELSE outcome.value)
  /\ UNCHANGED <<pc, groups, commit_groups, backend_calls, fn_vars, yes,
                 detected_vcs, changes, head, branch, accepted_groups,
                 declined_groups, prompts, exit_code, summary_printed>>

\* line 51: return diffs
ReturnDiffs ==
  /\ pc = "extract_diffs"
  /\ Len(CallsOf({"get_diff"})) = Len(changes)
  /\ pc' = "generate_groups"
  /\ UNCHANGED <<diffs, groups, commit_groups, backend_calls, fn_vars, yes,
                 detected_vcs, changes, head, branch, accepted_groups,
                 declined_groups, main_calls, prompts, exit_code, summary_printed>>

\* the paths of the changes handed to extract_diffs
ChangePaths == {f.path : f \in FileChanges}

\* most changes of one call
MaxChanges == 3

InitDiffs ==
  /\ diffs = <<>>
  /\ pc = "extract_diffs"
  /\ groups = <<>>
  /\ commit_groups = <<>>
  /\ backend_calls = <<>>
  /\ fn_message = <<>>
  /\ fn_type = "other"
  /\ fn_out = <<>>
  /\ fn_pc = "idle"
  /\ yes = FALSE
  /\ detected_vcs = "none"
  /\ changes \in UNION {[1..n -> ChangePaths] : n \in 0..MaxChanges}
  /\ head = StartBranch
  /\ branch = NoBranch
  /\ accepted_groups = <<>>
  /\ declined_groups = <<>>
  /\ main_calls = <<>>
  /\ prompts = <<>>
  /\ exit_code = NoExit
  /\ summary_printed = FALSE

NextDiffs == GetDiff \/ ReturnDiffs

SpecDiffs == InitDiffs /\ [][NextDiffs]_vars

\* ------------------------------------------------------------------------
\* main
\* ------------------------------------------------------------------------

EXIT_SUCCESS == 0
EXIT_GENERIC_ERROR == 1
EXIT_NO_REPO == 3
EXIT_NO_CHANGES == 4
EXIT_CONFIG_ERROR == 5
EXIT_VCS_FAILURE == 6
EXIT_LLM_FAILURE == 7
EXIT_ALL_DECLINED == 8

\* raise click.exceptions.Exit(code), or ctx.exit(code)
Exit(code) == pc' = "exited" /\ exit_code' = code

\* the exception class of the client: GitError or SVNError
VcsError(vcs) == IF vcs = "git" THEN "GitError" ELSE "SVNError"

\* the variables of the generator and of the direct calls, which main
\* does not touch outside its generation step
generator_vars == <<groups, backend_calls, fn_vars>>

\* lines 396-422: step 1, detection or validation of the repository; no
\* repository, or both kinds at once, end the run
DetectRepository ==
  /\ pc = "detect_vcs"
  /\ \E found \in {"git", "svn", "none"} :
       IF found = "none"
       THEN /\ main_calls' = Append(main_calls,
                                    Call("detect_vcs", <<>>, <<>>, FALSE, Raised("SystemExit")))
            /\ Exit(EXIT_NO_REPO)
            /\ UNCHANGED detected_vcs
       ELSE /\ main_calls' = Append(main_calls,
                                    Call("detect_vcs", <<>>, <<>>, FALSE, Returned(found)))
            /\ pc' = "load_config"
            /\ detected_vcs' = found
            /\ UNCHANGED exit_code
  /\ UNCHANGED <<diffs, commit_groups, generator_vars, yes, changes, head, branch,
                 accepted_groups, declined_groups, prompts, summary_printed>>

\* variant: every error of load_config counts as a configuration error
LoadConfiguration_AnyErrorIsConfig ==
  /\ pc = "load_config"
  /\ \E outcome \in {Returned(<<>>), Raised("ConfigError"), Raised("Exception")} :
       /\ main_calls' = Append(main_calls,
                               Call("load_config", <<>>, <<>>, FALSE, outcome))
       /\ IF ~outcome.raised THEN pc' = "branch" /\ UNCHANGED exit_code
          ELSE Exit(EXIT_CONFIG_ERROR)
  /\ UNCHANGED <<diffs, commit_groups, generator_vars, yes, detected_vcs, changes,
                 head, branch, accepted_groups, declined_groups, prompts,
                 summary_printed>>

\* lines 424-456: steps 2 and 3, load_config and the construction of the
\* client, which only stores the repository root
LoadConfiguration ==
  /\ pc = "load_config"
  /\ \E outcome \in {Returned(<<>>), Raised("ConfigError"), Raised("Exception")} :
       /\ main_calls' = Append(main_calls,
                               Call("load_config", <<>>, <<>>, FALSE, outcome))
       /\ IF ~outcome.raised THEN pc' = "branch" /\ UNCHANGED exit_code
          ELSE IF outcome.value = "ConfigError" THEN Exit(EXIT_CONFIG_ERROR)
          ELSE Exit(EXIT_GENERIC_ERROR)
  /\ UNCHANGED <<diffs, commit_groups, generator_vars, yes, detected_vcs, changes,
                 head, branch, accepted_groups, declined_groups, prompts,
                 summary_printed>>

\* lines 197-201 and 462-466: with --yes the current branch is used; an
\* error of get_current_branch reaches main
BranchYesMode ==
  /\ pc = "branch"
  /\ yes
  /\ \E outcome \in {Returned(head), Raised(VcsError(detected_vcs))} :
       /\ main_calls' = Append(main_calls,
                              Call("get_current_branch", <<>>, <<>>, FALSE, outcome))
       /\ IF outcome.raised
          THEN Exit(EXIT_VCS_FAILURE) /\ UNCHANGED branch
          ELSE /\ branch' = [created |-> FALSE, name |-> outcome.value, attempts |-> 0]
               /\ pc' = "get_changes"
               /\ UNCHANGED exit_code
  /\ UNCHANGED <<diffs, commit_groups, generator_vars, yes, detected_vcs, changes,
                 head, accepted_groups, declined_groups, prompts, summary_printed>>

\* lines 203-215 and 251-254: the current branch is read and the user is
\* asked whether to create a branch
BranchAsk ==
  /\ pc = "branch"
  /\ ~yes
  /\ \E outcome \in {Returned(head), Raised(VcsError(detected_vcs))} :
       /\ main_calls' = Append(main_calls,
                              Call("get_current_branch", <<>>, <<>>, FALSE, outcome))
       /\ IF outcome.raised
          THEN /\ branch' = [created |-> FALSE, name |-> <<"u","n","k","n","o","w","n">>, attempts |-> 0]
               /\ pc' = "get_changes"
               /\ UNCHANGED prompts
          ELSE /\ prompts' = Append(prompts, "confirm_create_branch")
               /\ branch' = [created |-> FALSE, name |-> outcome.value, attempts |-> 0]
               /\ \E create_branch \in BOOLEAN :
                    pc' = IF create_branch THEN "branch_name" ELSE "get_changes"
  /\ UNCHANGED <<diffs, commit_groups, generator_vars, yes, detected_vcs, changes,
                 head, accepted_groups, declined_groups, exit_code,
                 summary_printed>>

\* the names the user enters, stripped
BranchNames == {<<>>, StartBranch, <<"x">>}

\* most rounds of the loop that asks for a branch name
MaxBranchAttempts == 1

\* client.branch_exists(branch_name)
BranchExists(branch_name) == branch_name \in {StartBranch, head}

\* GitClient.create_branch: checkout -b, then the push to the remote;
\* SVNClient.create_branch: a copy on the server, the working copy stays
CreateBranchOutcomes(vcs) ==
  IF vcs = "git"
  THEN {[outcome |-> Returned(<<>>), switched |-> TRUE],
        [outcome |-> Raised("GitError"), switched |-> FALSE],
        [outcome |-> Raised("GitError"), switched |-> TRUE]}
  ELSE {[outcome |-> Returned(<<>>), switched |-> FALSE],
        [outcome |-> Raised("SVNError"), switched |-> FALSE]}

\* the answer to "Try a different name?": the loop goes on, or the
\* function returns (False, current_branch)
RetryOrReturn(calls, questions) ==
  /\ main_calls' = main_calls \o calls
  /\ prompts' = prompts \o questions \o <<"confirm_retry">>
  /\ \E retry \in BOOLEAN :
       /\ retry => branch.attempts + 1 < MaxBranchAttempts
       /\ branch' = [branch EXCEPT !.attempts = @ + 1]
       /\ pc' = IF retry THEN "branch_name" ELSE "get_changes"

\* lines 218-249: one round of the loop that asks for the branch name,
\* branch.name being current_branch
BranchName ==
  /\ pc = "branch_name"
  /\ \E branch_name \in BranchNames :
       LET exists == Call("branch_exists", <<>>, branch_name, FALSE,
                          Returned(IF BranchExists(branch_name) THEN branch_name ELSE <<>>))
       IN  IF branch_name = <<>>
           THEN /\ branch.attempts + 1 < MaxBranchAttempts
                /\ prompts' = Append(prompts, "prompt_branch_name")
                /\ branch' = [branch EXCEPT !.attempts = @ + 1]
                /\ UNCHANGED <<pc, main_calls, head>>
           ELSE IF BranchExists(branch_name)
           THEN /\ RetryOrReturn(<<exists>>, <<"prompt_branch_name">>)
                /\ UNCHANGED head
           ELSE \E result \in CreateBranchOutcomes(detected_vcs) :
                  LET create == Call("create_branch", <<>>, branch_name, FALSE,
                                     result.outcome)
                  IN  /\ head' = IF result.switched THEN branch_name ELSE head
                      /\ IF result.outcome.raised
                         THEN RetryOrReturn(<<exists, create>>, <<"prompt_branch_name">>)
                         ELSE /\ main_calls' = main_calls \o <<exists, create>>
                              /\ prompts' = Append(prompts, "prompt_branch_name")
                              /\ branch' = [created |-> TRUE, name |-> branch_name,
                                            attempts |-> branch.attempts + 1]
                              /\ pc' = "get_changes"
  /\ UNCHANGED <<diffs, commit_groups, generator_vars, yes, detected_vcs, changes,
                 accepted_groups, declined_groups, exit_code, summary_printed>>

\* the paths client.get_changes() reports
MainPaths == {<<"R","E","A","D","M","E",".","m","d">>, <<"a",".","p","y">>, <<"b",".","p","y">>}

\* most changes of one run of main
MaxMainChanges == 2

\* what client.get_changes() returns: distinct paths in some order
MainChangeLists ==
  {cs \in UNION {[1..n -> MainPaths] : n \in 0..MaxMainChanges} :
     \A i, j \in 1..Len(cs) : cs[i] = cs[j] => i = j}

\* lines 472-490: step 5, the changes are read; none end the run
GetChanges ==
  /\ pc = "get_changes"
  /\ \/ \E exc \in {VcsError(detected_vcs), "Exception"} :
          /\ main_calls' = Append(main_calls,
                                 Call("get_changes", <<>>, <<>>, FALSE, Raised(exc)))
          /\ Exit(IF exc = "Exception" THEN EXIT_GENERIC_ERROR ELSE EXIT_VCS_FAILURE)
          /\ UNCHANGED changes
     \/ \E cs \in MainChangeLists :
          /\ main_calls' = Append(main_calls,
                                 Call("get_changes", <<>>, <<>>, FALSE, Returned(cs)))
          /\ changes' = cs
          /\ IF cs = <<>> THEN Exit(EXIT_NO_CHANGES)
             ELSE pc' = "extract_diffs" /\ UNCHANGED exit_code
  /\ UNCHANGED <<diffs, commit_groups, generator_vars, yes, detected_vcs, head,
                 branch, accepted_groups, declined_groups, prompts,
                 summary_printed>>

\* the loop of generate_groups over the buckets, every call of the backend
\* having the same outcome
RECURSIVE GenerateAll(_, _, _)
GenerateAll(gs, d, outcome) ==
  IF gs = <<>> THEN <<>>
  ELSE LET g == Head(gs)
           result == TryBlock(g.type, g.files, outcome)
           message == IF result.raised THEN FallbackMessage(g.type, g.files)
                      ELSE result.value
       IN  <<[type |-> g.type, files |-> g.files, message |-> message,
              diffs |-> [k \in 1..Len(g.files) |-> d[DiffOf(d, g.files[k])]]]>>
           \o GenerateAll(Tail(gs), d, outcome)

\* what the backend does in one run of main
MainBackendOutcomes == {Returned(<<"[","f","i","x","]",":"," ","a","\n","\n","b">>), Raised("LLMError")}

\* what a generator put in the place of CommitMessageGenerator does, as in
\* the tests of main: generate_groups itself returns a group per category
\* and lets no Exception out
ReplacedGenerator == {Returned(<<>>), Raised("LLMError"), Raised("Exception")}

\* lines 509-538: step 7, generate_groups(diffs); an LLMError and an empty
\* list end the run
GenerateGroups ==
  /\ pc = "generate_groups"
  /\ \/ \E outcome \in MainBackendOutcomes :
          LET classified == ClassifyAll(diffs, <<>>)
          IN  /\ groups' = classified
              /\ backend_calls' =
                   [k \in 1..Len(classified) |->
                      [group_type |-> classified[k].type,
                       files |-> classified[k].files, outcome |-> outcome]]
              /\ commit_groups' = GenerateAll(classified, diffs, outcome)
              /\ main_calls' =
                   Append(main_calls,
                          Call("generate_groups", <<>>, <<>>, FALSE,
                               Returned(GenerateAll(classified, diffs, outcome))))
              /\ IF classified = <<>> THEN Exit(EXIT_GENERIC_ERROR)
                 ELSE pc' = "review" /\ UNCHANGED exit_code
     \/ \E outcome \in ReplacedGenerator :
          /\ main_calls' = Append(main_calls,
                                  Call("generate_groups", <<>>, <<>>, FALSE, outcome))
          /\ UNCHANGED <<groups, backend_calls, commit_groups>>
          /\ Exit(IF ~outcome.raised \/ outcome.value = "Exception"
                  THEN EXIT_GENERIC_ERROR ELSE EXIT_LLM_FAILURE)
  /\ UNCHANGED <<diffs, fn_vars, yes, detected_vcs, changes, head, branch,
                 accepted_groups, declined_groups, prompts, summary_printed>>

\* lines 547-552: with --yes every group is accepted with its message
AutoAccept ==
  /\ pc = "review"
  /\ yes
  /\ accepted_groups = <<>>
  /\ accepted_groups' =
       [k \in 1..Len(commit_groups) |-> [group |-> k, message |-> commit_groups[k].message]]
  /\ pc' = "review_done"
  /\ UNCHANGED <<diffs, commit_groups, generator_vars, yes, detected_vcs, changes,
                 head, branch, declined_groups, main_calls, prompts, exit_code,
                 summary_printed>>

\* the texts the user writes when editing a message
EditedTexts == {<<>>, <<" ","n","e","w"," ","t","e","x","t","\n">>}

\* prompt_user: what the user chooses for a group
ReviewChoices ==
  {[choice |-> "a", text |-> <<>>], [choice |-> "d", text |-> <<>>]}
  \cup {[choice |-> "e", text |-> text] : text \in EditedTexts}

\* lines 303-360: the message prompt_user returns, None being NoMessage
NoMessage == "None"

\* the return value of prompt_user
prompt_user(group, answer) ==
  IF answer.choice = "d" THEN NoMessage
  ELSE IF answer.choice = "e" /\ Strip(answer.text) # <<>> THEN Strip(answer.text)
  ELSE group.message

\* variant: the edited text is written into the group
ReviewGroup_WritesIntoGroup ==
  /\ pc = "review"
  /\ ~yes
  /\ Len(accepted_groups) + Len(declined_groups) < Len(commit_groups)
  /\ LET idx == Len(accepted_groups) + Len(declined_groups) + 1
     IN  \E answer \in ReviewChoices :
           LET message == prompt_user(commit_groups[idx], answer)
           IN  /\ prompts' = Append(prompts, "prompt_user")
               /\ IF message = NoMessage
                  THEN /\ declined_groups' = Append(declined_groups, idx)
                       /\ UNCHANGED <<accepted_groups, commit_groups>>
                  ELSE /\ accepted_groups' =
                            Append(accepted_groups, [group |-> idx, message |-> message])
                       /\ commit_groups' = [commit_groups EXCEPT ![idx].message = message]
                       /\ UNCHANGED declined_groups
  /\ UNCHANGED <<diffs, pc, generator_vars, yes, detected_vcs, changes,
                 head, branch, main_calls, exit_code, summary_printed>>

\* lines 558-563: one group is shown to the user
ReviewGroup ==
  /\ pc = "review"
  /\ ~yes
  /\ Len(accepted_groups) + Len(declined_groups) < Len(commit_groups)
  /\ LET idx == Len(accepted_groups) + Len(declined_groups) + 1
     IN  \E answer \in ReviewChoices :
           LET message == prompt_user(commit_groups[idx], answer)
           IN  /\ prompts' = Append(prompts, "prompt_user")
               /\ IF message = NoMessage
                  THEN /\ declined_groups' = Append(declined_groups, idx)
                       /\ UNCHANGED accepted_groups
                  ELSE /\ accepted_groups' =
                            Append(accepted_groups, [group |-> idx, message |-> message])
                       /\ UNCHANGED declined_groups
  /\ UNCHANGED <<diffs, pc, commit_groups, generator_vars, yes, detected_vcs, changes,
                 head, branch, main_calls, exit_code, summary_printed>>

\* variant: when every group was declined, all of them are committed
FinishReview_AcceptsWhenAllDeclined ==
  /\ \/ pc = "review_done"
     \/ /\ pc = "review"
        /\ ~yes
        /\ Len(accepted_groups) + Len(declined_groups) = Len(commit_groups)
  /\ accepted_groups' =
       IF accepted_groups # <<>> THEN accepted_groups
       ELSE [k \in 1..Len(commit_groups) |->
               [group |-> k, message |-> commit_groups[k].message]]
  /\ pc' = "commit"
  /\ UNCHANGED <<diffs, commit_groups, generator_vars, yes, detected_vcs, changes,
                 head, branch, declined_groups, main_calls, exit_code,
                 prompts, summary_printed>>

\* lines 565-572: after the review; no accepted group ends the run
FinishReview ==
  /\ \/ pc = "review_done"
     \/ /\ pc = "review"
        /\ ~yes
        /\ Len(accepted_groups) + Len(declined_groups) = Len(commit_groups)
  /\ IF accepted_groups = <<>> THEN Exit(EXIT_ALL_DECLINED)
     ELSE pc' = "commit" /\ UNCHANGED exit_code
  /\ UNCHANGED <<diffs, commit_groups, generator_vars, yes, detected_vcs, changes,
                 head, branch, accepted_groups, declined_groups, main_calls,
                 prompts, summary_printed>>

\* the calls of the commit loop made so far, and the calls per group
CommitCalls == CallsOf({"stage_files", "commit", "push"})
CallsPerGroup == IF detected_vcs = "git" THEN 3 ELSE 2

\* what a call of the commit loop does
CommitCallOutcomes ==
  {Returned(<<>>), Raised(VcsError(detected_vcs)), Raised("Exception")}

\* variant: after a failed call the loop goes on
CommitCall_GoesOn(op, files, message, set_upstream) ==
  \E outcome \in CommitCallOutcomes :
    /\ main_calls' = Append(main_calls, Call(op, files, message, set_upstream, outcome))
    /\ UNCHANGED <<pc, exit_code>>

\* a call inside the try block of lines 575-593
CommitCall(op, files, message, set_upstream) ==
  \E outcome \in CommitCallOutcomes :
    /\ main_calls' = Append(main_calls, Call(op, files, message, set_upstream, outcome))
    /\ IF ~outcome.raised THEN UNCHANGED <<pc, exit_code>>
       ELSE IF outcome.value = "Exception" THEN Exit(EXIT_GENERIC_ERROR)
       ELSE Exit(EXIT_VCS_FAILURE)

\* the accepted group the commit loop is at
CurrentAccepted == accepted_groups[Len(CommitCalls) \div CallsPerGroup + 1]

\* lines 579 and 585-586: client.stage_files(group.files)
StageFiles ==
  /\ pc = "commit"
  /\ Len(CommitCalls) < CallsPerGroup * Len(accepted_groups)
  /\ Len(CommitCalls) % CallsPerGroup = 0
  /\ CommitCall("stage_files", commit_groups[CurrentAccepted.group].files, <<>>, FALSE)
  /\ UNCHANGED <<diffs, commit_groups, generator_vars, yes, detected_vcs, changes,
                 head, branch, accepted_groups, declined_groups, prompts,
                 summary_printed>>

\* variant: the generated message is committed, not the reviewed one
Commit_GeneratedMessage ==
  /\ pc = "commit"
  /\ Len(CommitCalls) < CallsPerGroup * Len(accepted_groups)
  /\ Len(CommitCalls) % CallsPerGroup = 1
  /\ CommitCall("commit",
                IF detected_vcs = "git" THEN <<>>
                ELSE commit_groups[CurrentAccepted.group].files,
                commit_groups[CurrentAccepted.group].message, FALSE)
  /\ UNCHANGED <<diffs, commit_groups, generator_vars, yes, detected_vcs, changes,
                 head, branch, accepted_groups, declined_groups, prompts,
                 summary_printed>>

\* lines 580 and 587: client.commit(message), for SVN with group.files
Commit ==
  /\ pc = "commit"
  /\ Len(CommitCalls) < CallsPerGroup * Len(accepted_groups)
  /\ Len(CommitCalls) % CallsPerGroup = 1
  /\ CommitCall("commit",
                IF detected_vcs = "git" THEN <<>>
                ELSE commit_groups[CurrentAccepted.group].files,
                CurrentAccepted.message, FALSE)
  /\ UNCHANGED <<diffs, commit_groups, generator_vars, yes, detected_vcs, changes,
                 head, branch, accepted_groups, declined_groups, prompts,
                 summary_printed>>

\* variant: every push sets the upstream
Push_SetsUpstream ==
  /\ pc = "commit"
  /\ Len(CommitCalls) < CallsPerGroup * Len(accepted_groups)
  /\ Len(CommitCalls) % CallsPerGroup = 2
  /\ CommitCall("push", <<>>, <<>>, TRUE)
  /\ UNCHANGED <<diffs, commit_groups, generator_vars, yes, detected_vcs, changes,
                 head, branch, accepted_groups, declined_groups, prompts,
                 summary_printed>>

\* line 582: client.push(set_upstream=branch_created), for Git only
Push ==
  /\ pc = "commit"
  /\ Len(CommitCalls) < CallsPerGroup * Len(accepted_groups)
  /\ Len(CommitCalls) % CallsPerGroup = 2
  /\ CommitCall("push", <<>>, <<>>, branch.created)
  /\ UNCHANGED <<diffs, commit_groups, generator_vars, yes, detected_vcs, changes,
                 head, branch, accepted_groups, declined_groups, prompts,
                 summary_printed>>

\* lines 595-614: the summary is printed and main ends
Summary ==
  /\ pc = "commit"
  /\ Len(CommitCalls) = CallsPerGroup * Len(accepted_groups)
  /\ summary_printed' = TRUE
  /\ Exit(EXIT_SUCCESS)
  /\ UNCHANGED <<diffs, commit_groups, generator_vars, yes, detected_vcs, changes,
                 head, branch, accepted_groups, declined_groups, main_calls,
                 prompts>>

InitMain ==
  /\ diffs = <<>>
  /\ pc = "detect_vcs"
  /\ groups = <<>>
  /\ commit_groups = <<>>
  /\ backend_calls = <<>>
  /\ fn_message = <<>>
  /\ fn_type = "other"
  /\ fn_out = <<>>
  /\ fn_pc = "idle"
  /\ yes \in BOOLEAN
  /\ detected_vcs = "none"
  /\ changes = <<>>
  /\ head = StartBranch
  /\ branch = NoBranch
  /\ accepted_groups = <<>>
  /\ declined_groups = <<>>
  /\ main_calls = <<>>
  /\ prompts = <<>>
  /\ exit_code = NoExit
  /\ summary_printed = FALSE

NextMain ==
  \/ DetectRepository \/ LoadConfiguration
  \/ BranchYesMode \/ BranchAsk \/ BranchName
  \/ GetChanges \/ GetDiff \/ ReturnDiffs \/ GenerateGroups
  \/ AutoAccept \/ ReviewGroup \/ FinishReview
  \/ StageFiles \/ Commit \/ Push \/ Summary

SpecMain == InitMain /\ [][NextMain]_vars

\* ------------------------------------------------------------------------
\* Properties of generate_groups
\* ------------------------------------------------------------------------

\* the paths of the diff map, in its order
DiffPaths == [k \in 1..Len(diffs) |-> diffs[k].path]

\* the files of all returned groups, group after group
ReturnedFiles == Concat([k \in 1..Len(commit_groups) |-> commit_groups[k].files])

\* set of the elements of a sequence
Range(s) == {s[k] : k \in 1..Len(s)}

\* C1: when generate_groups has returned, the groups' file lists are pairwise
\* disjoint and their union is the key set of the diff map: every input path
\* is in exactly one group, exactly once.
C1_Partition ==
  pc = "done" =>
    /\ Range(ReturnedFiles) = Range(DiffPaths)
    /\ Len(ReturnedFiles) = Cardinality(Range(DiffPaths))
    /\ \A i, j \in 1..Len(ReturnedFiles) :
         i # j => ReturnedFiles[i] # ReturnedFiles[j]

\* a run that returned two groups, one of them with two files
C1_Witness ==
  /\ pc = "done"
  /\ Len(commit_groups) = 2
  /\ \E k \in 1..2 : Len(commit_groups[k].files) = 2

\* the category of every entry of the diff map
DiffCategories ==
  [i \in 1..Len(diffs) |-> classify_change(diffs[i].path, diffs[i].diff)]

\* position in the diff map of the first file of a category
FirstSeen(cats, commit_type) ==
  CHOOSE i \in 1..Len(cats) :
    /\ cats[i] = commit_type
    /\ \A j \in 1..(i - 1) : cats[j] # commit_type

\* C2: the returned groups have pairwise different categories, stand in the
\* order in which their categories were first seen in the diff map, and each
\* holds the files of its category in the order of the diff map; the groups
\* are a function of the diff map alone.
C2_FirstSeenOrder ==
  pc = "done" =>
    LET cats == DiffCategories
    IN  /\ \A i, j \in 1..Len(commit_groups) :
             i < j => /\ commit_groups[i].type # commit_groups[j].type
                      /\ FirstSeen(cats, commit_groups[i].type)
                           < FirstSeen(cats, commit_groups[j].type)
        /\ \A k \in 1..Len(commit_groups) :
             LET InGroup(p) ==
                   \E i \in 1..Len(diffs) :
                      diffs[i].path = p /\ cats[i] = commit_groups[k].type
             IN  commit_groups[k].files = SelectSeq(DiffPaths, InGroup)

\* a run whose first group took the first and the third file, with a file
\* of another category between them
C2_Witness ==
  /\ pc = "done"
  /\ Len(diffs) = 3
  /\ Len(commit_groups) = 2
  /\ commit_groups[1].files = <<diffs[1].path, diffs[3].path>>
  /\ commit_groups[2].files = <<diffs[2].path>>

\* the backend failed for a call: it raised, or its answer is blank
BackendFailed(outcome) == outcome.raised \/ Strip(outcome.value) = <<>>

\* number of categories present in the diff map
CategoriesPresent == Cardinality(Range(DiffCategories))

\* C3: no backend outcome aborts the run: every backend call is followed by
\* a group, a failed call by a group with the fallback message and a
\* successful call by a group with the extracted and normalized answer, and
\* the run returns one group per category.
C3_FailureTolerant ==
  /\ pc # "raised"
  /\ Len(commit_groups) = Len(backend_calls)
  /\ \A k \in 1..Len(backend_calls) :
       LET call == backend_calls[k]
           group == commit_groups[k]
       IN  /\ group.type = call.group_type
           /\ BackendFailed(call.outcome) =>
                group.message = FallbackMessage(group.type, group.files)
           /\ ~BackendFailed(call.outcome) =>
                /\ group.message # FallbackMessage(group.type, group.files)
                /\ group.message =
                     _normalize_message(_extract_commit_message(call.outcome.value).value,
                                        group.type).value
  /\ pc = "done" => Len(commit_groups) = CategoriesPresent

\* a returned run in which the backend raised for the first group and
\* answered for the second
C3_Witness ==
  /\ pc = "done"
  /\ Len(backend_calls) >= 2
  /\ backend_calls[1].outcome.raised
  /\ ~BackendFailed(backend_calls[2].outcome)
  /\ commit_groups[2].message # FallbackMessage(commit_groups[2].type, commit_groups[2].files)

\* C4: every returned group has a message that is not empty, whatever the
\* backend did.
C4_MessagePresent ==
  pc = "done" =>
    \A k \in 1..Len(commit_groups) : Strip(commit_groups[k].message) # <<>>

\* a returned run with a group for which the backend answered nothing
C4_Witness ==
  /\ pc = "done"
  /\ \E k \in 1..Len(commit_groups) :
       /\ ~backend_calls[k].outcome.raised
       /\ backend_calls[k].outcome.value = <<>>

\* "[type]:"
BracketColon(group_type) == <<"[">> \o TypeChars[group_type] \o <<"]",":">>

\* C5 (as claimed): the first line of every returned message begins with
\* "[<type>]: ", <type> being exactly the type of its group.
C5_ExactPrefix ==
  pc = "done" =>
    \A k \in 1..Len(commit_groups) :
       StartsWith(commit_groups[k].message,
                  BracketColon(commit_groups[k].type) \o <<" ">>)

\* C5 (amended): the first line of every returned message begins with
\* "[<t>]:" and a whitespace character, <t> being the type of its group
\* case-insensitively.
C5_PrefixUpToCase ==
  pc = "done" =>
    \A k \in 1..Len(commit_groups) :
       LET pre == BracketColon(commit_groups[k].type)
           message == commit_groups[k].message
       IN  /\ Len(message) > Len(pre)
           /\ Lower(Take(message, Len(pre))) = pre
           /\ IsSpace(message[Len(pre) + 1])
           /\ ~IsLineBreak(message[Len(pre) + 1])

\* a returned fix group that keeps the backend's "[FIX]:<tab>" spelling
C5_Witness ==
  /\ pc = "done"
  /\ \E k \in 1..Len(commit_groups) :
       /\ commit_groups[k].type = "fix"
       /\ StartsWith(commit_groups[k].message, <<"[","F","I","X","]",":","\t">>)

\* C10: a call of the backend that returns an empty or whitespace-only text
\* is followed at once by a group for the same category and files whose
\* message is the fallback message; the error does not leave generate_groups.
C10_EmptyResponseFallback ==
  \A k \in 1..Len(backend_calls) :
     LET call == backend_calls[k]
     IN  (~call.outcome.raised /\ Strip(call.outcome.value) = <<>>) =>
           /\ pc # "raised"
           /\ Len(commit_groups) >= k
           /\ commit_groups[k].type = call.group_type
           /\ commit_groups[k].files = call.files
           /\ commit_groups[k].message = FallbackMessage(call.group_type, call.files)

\* a returned run with a two-file group for which the backend answered
\* whitespace only
C10_Witness ==
  /\ pc = "done"
  /\ \E k \in 1..Len(commit_groups) :
       /\ Len(commit_groups[k].files) = 2
       /\ ~backend_calls[k].outcome.raised
       /\ backend_calls[k].outcome.value = <<" ","\n">>

\* "[type]: <verb> <n> file" or "... files"
CountSubject(group_type, verb, n) ==
  BracketColon(group_type) \o <<" ">> \o verb \o <<" ">> \o IntToStr(n) \o <<" ","f","i","l","e">>
  \o (IF n = 1 THEN <<>> ELSE <<"s">>)

\* C11 (as claimed): a group of n files whose backend call failed has a
\* message with the subject line "[c]: update n file" for n = 1 and
\* "[c]: update n files" otherwise.
C11_UpdateSubject ==
  \A k \in 1..Len(commit_groups) :
     BackendFailed(backend_calls[k].outcome) =>
       StartsWith(commit_groups[k].message,
                  CountSubject(commit_groups[k].type, <<"u","p","d","a","t","e">>,
                               Len(commit_groups[k].files)) \o <<"\n">>)

\* C11 (amended): a group of n files whose backend call failed has a message
\* with the subject line "[c]: Changes to n file" for n = 1 and
\* "[c]: Changes to n files" otherwise.
C11_ChangesSubject ==
  \A k \in 1..Len(commit_groups) :
     BackendFailed(backend_calls[k].outcome) =>
       StartsWith(commit_groups[k].message,
                  CountSubject(commit_groups[k].type, <<"C","h","a","n","g","e","s"," ","t","o">>,
                               Len(commit_groups[k].files)) \o <<"\n">>)

\* a returned test group of two files for which the backend raised, with
\* the subject "[test]: Changes to 2 files"
C11_Witness ==
  /\ pc = "done"
  /\ \E k \in 1..Len(commit_groups) :
       /\ commit_groups[k].type = "test"
       /\ Len(commit_groups[k].files) = 2
       /\ backend_calls[k].outcome.raised
       /\ StartsWith(commit_groups[k].message, <<"[","t","e","s","t","]",":"," ","C","h","a","n","g","e","s"," ","t","o"," ","2"," ","f","i","l","e","s","\n">>)

\* C12: the backend is called once per group, in group order and with the
\* group's type and files, never more often than there are groups; every
\* step makes at most one call, and the group of a call is finished in the
\* step of the call, before the next call.
C12_OneCallPerGroup ==
  /\ [](/\ Len(backend_calls) <= Len(groups)
        /\ \A k \in 1..Len(backend_calls) :
             /\ backend_calls[k].group_type = groups[k].type
             /\ backend_calls[k].files = groups[k].files
        /\ pc = "done" => Len(backend_calls) = Len(groups))
  /\ [][/\ Len(backend_calls') <= Len(backend_calls) + 1
        /\ Len(backend_calls') = Len(commit_groups')]_vars

\* a returned run of three groups in which the first two calls raised
C12_Witness ==
  /\ pc = "done"
  /\ Len(backend_calls) = 3
  /\ backend_calls[1].outcome.raised
  /\ backend_calls[2].outcome.raised

\* ------------------------------------------------------------------------
\* Properties of _normalize_message
\* ------------------------------------------------------------------------

\* the subject of a text: its first line, stripped
SubjectOf(text) ==
  IF SplitLines(text) = <<>> THEN <<>> ELSE Strip(SplitLines(text)[1])

\* the subject is the given prefix followed at once by a text
HasPrefixThenText(subject, prefix) ==
  /\ StartsWith(subject, prefix)
  /\ Len(subject) > Len(prefix)
  /\ ~IsSpace(subject[Len(prefix) + 1])

C7_BracketNoColon ==
  fn_pc \in {"once", "twice"} =>
    \A t \in Categories :
      LET prefix == <<"[">> \o TypeChars[t] \o <<"]"," ">>
      IN  HasPrefixThenText(SubjectOf(fn_message), prefix) =>
            /\ ~fn_out[1].raised
            /\ SubjectOf(fn_out[1].value) =
                 BracketColon(fn_type) \o <<" ">>
                 \o Drop(SubjectOf(fn_message), Len(prefix) + 1)

\* C8 (as claimed): normalizing the result of a normalization with the same
\* category returns it unchanged.
C8_Idempotent ==
  fn_pc = "twice" => fn_out[2] = fn_out[1]

\* C9 (as claimed): the lines after the first line of the normalized message
\* are the lines after the first line of the message.
C9_BodyPreserved ==
  (fn_pc \in {"once", "twice"} /\ ~fn_out[1].raised) =>
    Tail(SplitLines(fn_out[1].value)) = Tail(SplitLines(fn_message))

\* ------------------------------------------------------------------------
\* Properties of the answer's way through client, extraction, normalization
\* ------------------------------------------------------------------------

\* the message starts with "[t]: text" for a conventional type t and its
\* first line is accepted as a typed line
WellFormedMessage(msg) ==
  /\ msg # <<>>
  /\ IsTypedStart(SplitLines(msg)[1])
  /\ \E t \in Range(CommitTypes) : HasPrefixThenText(msg, BracketColon(t) \o <<" ">>)

\* the text after "[t]: " on the first line of a well-formed message
SubjectText(msg) ==
  LET t == CHOOSE t \in Range(CommitTypes) :
             HasPrefixThenText(msg, BracketColon(t) \o <<" ">>)
  IN  Drop(SubjectOf(msg), Len(BracketColon(t)) + 2)

\* index of the first closing tag after the opening tag the text begins with
BlockEnd(text, pattern) ==
  FindFrom(Lower(text), pattern.close, Len(pattern.open) + 1)

\* what follows the first closing tag
MessageAfterBlock(text, pattern) ==
  Drop(text, BlockEnd(text, pattern) + Len(pattern.close))

\* the text is an opening tag, reasoning, the closing tag and a well-formed
\* message, with no further "<" in the reasoning or the message
BlockThenMessage(text, pattern) ==
  /\ StartsWith(Lower(text), pattern.open)
  /\ BlockEnd(text, pattern) > 0
  /\ ~Contains(SubSeq(text, Len(pattern.open) + 1, BlockEnd(text, pattern) - 1), <<"<">>)
  /\ ~Contains(MessageAfterBlock(text, pattern), <<"<">>)
  /\ WellFormedMessage(MessageAfterBlock(text, pattern))

C14_FromFirstTypedLine ==
  Len(fn_out) >= 2 =>
    LET lines == SplitLines(fn_out[1].value)
        typed == {i \in 1..Len(lines) :
                    LET stripped == Strip(lines[i])
                    IN  /\ MatchTypePrefix(stripped, CommitTypes).len > 0
                        /\ ~HasMarker(Take(Lower(stripped), MetaWindow))}
    IN  typed # {} =>
          fn_out[2] = Returned(Strip(JoinLines(Drop(lines, MinOf(typed)))))

\* a typed line behind a preamble line was found and the preamble dropped
C14_Witness ==
  /\ Len(fn_out) >= 2
  /\ fn_out[1].value = <<"H","e","r","e","'","s"," ","t","h","e"," ","c","o","m","m","i","t"," ","m","e","s","s","a","g","e",":","\n","f","i","x",":"," ","a","\n","s","h","o","r","t">>
  /\ fn_out[2] = Returned(<<"f","i","x",":"," ","a","\n","s","h","o","r","t">>)

\* C15: for a text that is not blank, extraction returns a non-empty text
\* that is the text from one of its lines to the end, stripped; when no line
\* qualifies as a message start, it is the whole text, stripped.
C15_NeverDiscardsAll ==
  (Len(fn_out) >= 2 /\ Strip(fn_out[1].value) # <<>>) =>
    LET lines == SplitLines(fn_out[1].value)
    IN  /\ ~fn_out[2].raised
        /\ fn_out[2].value # <<>>
        /\ \E i \in 1..Len(lines) :
             fn_out[2].value = Strip(JoinLines(Drop(lines, i)))
        /\ fn_out[2].value # Strip(fn_out[1].value) =>
             \E i \in 1..Len(lines) :
                IsTypedStart(lines[i]) \/ IsPlainStart(lines, i)

\* a text of preamble lines only was returned whole
C15_Witness ==
  /\ Len(fn_out) >= 2
  /\ fn_out[1].value = <<"H","e","r","e","'","s"," ","t","h","e"," ","c","o","m","m","i","t"," ","m","e","s","s","a","g","e",":","\n","l","e","t"," ","m","e"," ","f","i","x",":"," ","a">>
  /\ fn_out[2] = Returned(fn_out[1].value)

\* ------------------------------------------------------------------------
\* Properties of classify_change
\* ------------------------------------------------------------------------

\* the file of the run has been classified
Classified == pc = "generate" /\ Len(diffs) = 1 /\ Len(groups) = 1

\* the rules in the order of the classifier; rule 3 is the ci/build rule,
\* rule 10 the default
RuleCount == 10

RuleMatches(n, file_path, diff) ==
  CASE n = 1 -> Lower(PathSuffix(file_path)) \in {<<".","m","d">>, <<".","r","s","t">>, <<".","t","x","t">>, <<".","a","d","o","c">>}
    [] n = 2 -> \/ StartsWith(PathName(file_path), <<"t","e","s","t","_">>)
                \/ EndsWith(PathName(file_path), <<"_","t","e","s","t",".","p","y">>)
                \/ InParts(file_path, <<"t","e","s","t","s">>)
    [] n = 3 -> \/ PathName(file_path) \in {<<"D","o","c","k","e","r","f","i","l","e">>, <<"d","o","c","k","e","r","-","c","o","m","p","o","s","e",".","y","m","l">>}
                \/ PathSuffix(file_path) \in {<<".","y","a","m","l">>, <<".","y","m","l">>}
    [] n = 4 -> IsStyleChange(diff)
    [] n = 5 -> HasFixKeyword(diff)
    [] n = 6 -> SearchWord(diff, <<"r","e","f","a","c","t","o","r">>, TRUE, TRUE)
    [] n = 7 -> SearchWord(diff, <<"p","e","r","f">>, TRUE, TRUE) \/ SearchWord(diff, <<"p","e","r","f","o","r","m","a","n","c","e">>, TRUE, TRUE)
    [] n = 8 -> SearchWord(diff, <<"f","e","a","t">>, TRUE, TRUE) \/ SearchWord(diff, <<"f","e","a","t","u","r","e">>, TRUE, TRUE)
    [] n = 9 -> /\ \/ SearchWord(diff, <<"c","l","a","s","s">>, TRUE, TRUE)
                   \/ SearchWord(diff, <<"d","e","f">>, TRUE, TRUE)
                   \/ SearchWord(diff, <<"f","u","n","c","t","i","o","n">>, TRUE, TRUE)
                /\ Contains(diff, <<"+">>)
    [] OTHER -> TRUE

RuleLabel(n, file_path) ==
  CASE n = 1 -> "docs"
    [] n = 2 -> "test"
    [] n = 3 -> IF InParts(file_path, <<".","g","i","t","h","u","b">>) THEN "ci" ELSE "build"
    [] n = 4 -> "style"
    [] n = 5 -> "fix"
    [] n = 6 -> "refactor"
    [] n = 7 -> "perf"
    [] n = 8 -> "feat"
    [] n = 9 -> "feat"
    [] OTHER -> "other"

\* C16: the category of every path and diff, the empty ones included, is one
\* of the twelve categories, and it is other when none of the rules 1 to 9
\* matches.
C16_TotalAndClosed ==
  Classified =>
    /\ groups[1].type \in Categories
    /\ groups[1].files = <<diffs[1].path>>
    /\ (\A n \in 1..(RuleCount - 1) : ~RuleMatches(n, diffs[1].path, diffs[1].diff)) =>
         groups[1].type = "other"

\* the empty path with the empty diff was classified as other
C16_Witness ==
  /\ Classified
  /\ diffs[1] = [path |-> <<>>, diff |-> <<>>]
  /\ groups[1].type = "other"

\* C17: the category is the label of the first rule, in the order docs,
\* test, ci/build, style, fix, refactor, perf, feat keyword, code structure
\* with addition, default, that matches; so a docs file under a tests
\* directory is docs and a diff with a fix and a feat keyword is not feat.
C17_FirstMatchWins ==
  Classified =>
    LET file_path == diffs[1].path
        diff == diffs[1].diff
        first == MinOf({n \in 1..RuleCount : RuleMatches(n, file_path, diff)})
    IN  /\ groups[1].type = RuleLabel(first, file_path)
        /\ first <= 3 => groups[1].type = classify_change(file_path, <<>>)
        /\ (RuleMatches(1, file_path, diff) /\ InParts(file_path, <<"t","e","s","t","s">>)) =>
             groups[1].type = "docs"
        /\ (first > 4 /\ RuleMatches(5, file_path, diff) /\ RuleMatches(8, file_path, diff)) =>
             groups[1].type = "fix"

\* a docs file under tests with a fix keyword in its diff was classified
\* as docs
C17_Witness ==
  /\ Classified
  /\ diffs[1] = [path |-> <<"t","e","s","t","s","/","R","E","A","D","M","E",".","m","d">>, diff |-> <<"+","f","i","x","\n","+","f","e","a","t","u","r","e">>]
  /\ groups[1].type = "docs"

\* C18: a path that is neither a docs nor a test file and whose name is
\* Dockerfile or docker-compose.yml or whose extension is .yml or .yaml is ci
\* when one of its segments is .github and build otherwise.
C18_BuildOrCi ==
  Classified =>
    LET file_path == diffs[1].path
    IN  ( /\ ~RuleMatches(1, file_path, diffs[1].diff)
          /\ ~RuleMatches(2, file_path, diffs[1].diff)
          /\ \/ PathName(file_path) \in {<<"D","o","c","k","e","r","f","i","l","e">>, <<"d","o","c","k","e","r","-","c","o","m","p","o","s","e",".","y","m","l">>}
             \/ PathSuffix(file_path) \in {<<".","y","m","l">>, <<".","y","a","m","l">>} ) =>
          groups[1].type = IF \E k \in 1..Len(PathParts(file_path)) :
                                 PathParts(file_path)[k] = <<".","g","i","t","h","u","b">>
                           THEN "ci" ELSE "build"

\* ".github/workflows/ci.yml" with the empty diff was classified as ci
C18_Witness ==
  /\ Classified
  /\ diffs[1] = [path |-> <<".","g","i","t","h","u","b","/","w","o","r","k","f","l","o","w","s","/","c","i",".","y","m","l">>, diff |-> <<>>]
  /\ groups[1].type = "ci"

\* the name without its extension
PathStem(file_path) ==
  SubSeq(PathName(file_path), 1, Len(PathName(file_path)) - Len(PathSuffix(file_path)))

\* C19 (as claimed): a file that is not a docs file and whose name starts
\* with test_, or whose name without its extension ends with _test, or that
\* has a path segment tests, is classified test.
C19_TestFiles ==
  Classified =>
    LET file_path == diffs[1].path
    IN  ( /\ ~RuleMatches(1, file_path, diffs[1].diff)
          /\ \/ StartsWith(PathName(file_path), <<"t","e","s","t","_">>)
             \/ EndsWith(PathStem(file_path), <<"_","t","e","s","t">>)
             \/ InParts(file_path, <<"t","e","s","t","s">>) ) =>
          groups[1].type = "test"

\* the added and the removed lines of a diff, without their first
\* character and without whitespace
StrippedLines(diff, sign) ==
  LET HasSign(line) == StartsWith(line, sign) /\ ~StartsWith(line, sign \o sign)
      signed == SelectSeq(SplitLines(diff), HasSign)
  IN  [k \in 1..Len(signed) |-> RemoveSpaces(Tail(signed[k]))]

\* number of occurrences of x in the sequence
CountIn(seq, x) == Cardinality({k \in 1..Len(seq) : seq[k] = x})

\* the two sequences have the same elements with the same multiplicities
SameMultiset(a, b) ==
  \A x \in Range(a) \cup Range(b) : CountIn(a, x) = CountIn(b, x)

LastDiffCall(file_path) ==
  LET calls == CallsOf({"get_diff"})
      idx == {k \in 1..Len(calls) : calls[k].files = <<file_path>>}
  IN  IF idx = {} THEN 0 ELSE CHOOSE k \in idx : \A j \in idx : j <= k

\* C21: extract_diffs calls get_diff once per change, in list order, and
\* returns whatever get_diff does: the map has exactly one entry per
\* distinct path, with the text get_diff returned for the path, or the
\* empty text when get_diff raised (the last call deciding for a path that
\* is listed twice).
C21_FailsSoft ==
  LET calls == CallsOf({"get_diff"})
  IN  /\ Len(calls) <= Len(changes)
      /\ \A k \in 1..Len(calls) : calls[k].files = <<changes[k]>>
      /\ pc = "generate_groups" =>
           /\ Len(calls) = Len(changes)
           /\ {diffs[k].path : k \in 1..Len(diffs)} = Range(changes)
           /\ \A i, j \in 1..Len(diffs) : diffs[i].path = diffs[j].path => i = j
           /\ \A k \in 1..Len(diffs) :
                LET outcome == calls[LastDiffCall(diffs[k].path)].outcome
                IN  diffs[k].diff = IF outcome.raised THEN <<>> ELSE outcome.value

\* get_diff failed for the first of two files and succeeded for the second
C21_Witness ==
  /\ pc = "generate_groups"
  /\ changes = <<<<"a",".","p","y">>, <<"b",".","p","y">>>>
  /\ main_calls[1].outcome.raised
  /\ diffs = <<[path |-> <<"a",".","p","y">>, diff |-> <<>>], [path |-> <<"b",".","p","y">>, diff |-> <<"-","b","u","g","\n","+","y">>]>>

\* ------------------------------------------------------------------------
\* Properties of main (SpecMain)
\* ------------------------------------------------------------------------

\* the files and the reviewed message of the k-th accepted group
AcceptedFiles(k) == commit_groups[accepted_groups[k].group].files
AcceptedMessage(k) == accepted_groups[k].message

\* the last call main made
LastCall == main_calls[Len(main_calls)]

\* the call raised the error class of the VCS client
RaisedVcsError(call) ==
  call.outcome.raised /\ call.outcome.value = VcsError(detected_vcs)

\* C22: nothing is staged, committed or pushed unless at least one group
\* was accepted: when the run ends for no repository, a configuration
\* error, no changes, a generation failure, an empty group list or with
\* every group declined, no stage_files, commit or push call was made, and
\* whenever such a call was made some group had been accepted and not all
\* had been declined.
C22_NothingWithoutAccepted ==
  /\ CommitCalls # <<>> =>
       /\ accepted_groups # <<>>
       /\ pc \in {"commit", "exited"}
       /\ Len(declined_groups) < Len(commit_groups)
       /\ \A k \in 1..Len(accepted_groups) :
            accepted_groups[k].group \notin Range(declined_groups)
  /\ exit_code \in {EXIT_NO_REPO, EXIT_CONFIG_ERROR, EXIT_NO_CHANGES,
                    EXIT_LLM_FAILURE, EXIT_ALL_DECLINED} => CommitCalls = <<>>
  /\ (pc = "exited" /\ commit_groups = <<>>) => CommitCalls = <<>>

\* every group was declined and the run ended without a call of the loop
C22_Witness ==
  /\ exit_code = EXIT_ALL_DECLINED
  /\ Len(declined_groups) = 2
  /\ Len(prompts) >= 2
  /\ CommitCalls = <<>>

\* the operations of the commit loop for one group, Git and SVN
GroupOps == IF detected_vcs = "git" THEN <<"stage_files", "commit", "push">>
            ELSE <<"stage_files", "commit">>

\* C23: for Git the accepted groups are processed in review order, each
\* as stage_files(its files), commit(its reviewed message), push; the
\* message is what the review returned (the generated message on accept
\* or an empty edit, the stripped edited text on edit); the files of a
\* declined group are never staged.
C23_GitCommitOrder ==
  detected_vcs = "git" =>
    /\ \A n \in 1..Len(CommitCalls) :
         LET k == (n - 1) \div 3 + 1
             call == CommitCalls[n]
         IN  /\ k <= Len(accepted_groups)
             /\ call.op = GroupOps[((n - 1) % 3) + 1]
             /\ call.op = "stage_files" => call.files = AcceptedFiles(k)
             /\ call.op = "commit" => call.message = AcceptedMessage(k)
             /\ n < Len(CommitCalls) => ~call.outcome.raised
    /\ \A k \in 1..Len(accepted_groups) :
         /\ k > 1 => accepted_groups[k - 1].group < accepted_groups[k].group
         /\ \/ AcceptedMessage(k) = commit_groups[accepted_groups[k].group].message
            \/ \E text \in EditedTexts :
                 Strip(text) # <<>> /\ AcceptedMessage(k) = Strip(text)
    /\ \A n \in 1..Len(CommitCalls) : \A d \in Range(declined_groups) :
         CommitCalls[n].op = "stage_files" =>
           Range(CommitCalls[n].files) \cap Range(commit_groups[d].files) = {}

\* two groups went through stage, commit and push in order, the second
\* with an edited message
C23_Witness ==
  /\ detected_vcs = "git"
  /\ exit_code = EXIT_SUCCESS
  /\ Len(accepted_groups) = 2
  /\ Len(CommitCalls) = 6
  /\ CommitCalls[5].message = <<"n","e","w"," ","t","e","x","t">>
  /\ CommitCalls[5].message # commit_groups[accepted_groups[2].group].message

\* the exit code that belongs to the call that ended the run
ExitCodeFor(call) ==
  LET failed == call.outcome.raised
      unexpected == failed /\ call.outcome.value = "Exception"
  IN  CASE call.op = "detect_vcs" -> EXIT_NO_REPO
        [] call.op = "load_config" ->
             IF unexpected THEN EXIT_GENERIC_ERROR ELSE EXIT_CONFIG_ERROR
        [] call.op = "get_current_branch" -> EXIT_VCS_FAILURE
        [] call.op = "get_changes" ->
             IF ~failed THEN EXIT_NO_CHANGES
             ELSE IF unexpected THEN EXIT_GENERIC_ERROR ELSE EXIT_VCS_FAILURE
        [] call.op = "generate_groups" ->
             IF failed
             THEN IF unexpected THEN EXIT_GENERIC_ERROR ELSE EXIT_LLM_FAILURE
             ELSE IF commit_groups = <<>> THEN EXIT_GENERIC_ERROR
             ELSE EXIT_ALL_DECLINED
        [] call.op \in {"stage_files", "commit", "push"} ->
             IF ~failed THEN EXIT_SUCCESS
             ELSE IF unexpected THEN EXIT_GENERIC_ERROR ELSE EXIT_VCS_FAILURE
        [] OTHER -> NoExit

\* the calls whose failure main survives: get_diff always, and the calls
\* of the interactive branch dialogue
SurvivedFailure(call) ==
  \/ call.op = "get_diff"
  \/ ~yes /\ call.op \in {"get_current_branch", "create_branch"}

\* the cause the table names for the step that ended the run
EndedBy(call) ==
  CASE call.op \in {"detect_vcs", "load_config", "get_current_branch"} ->
         call.outcome.raised
    [] call.op = "get_changes" -> call.outcome.raised \/ changes = <<>>
    [] call.op = "generate_groups" ->
         \/ call.outcome.raised
         \/ commit_groups = <<>>
         \/ /\ accepted_groups = <<>>
            /\ yes \/ Len(declined_groups) = Len(commit_groups)
    [] call.op \in {"stage_files", "commit", "push"} ->
         \/ call.outcome.raised
         \/ /\ Len(CommitCalls) = CallsPerGroup * Len(accepted_groups)
            /\ accepted_groups # <<>>
            /\ \A n \in 1..Len(CommitCalls) : ~CommitCalls[n].outcome.raised
    [] OTHER -> FALSE

C25_YesMode ==
  yes =>
    /\ prompts = <<>>
    /\ CallsOf({"create_branch", "branch_exists"}) = <<>>
    /\ head = StartBranch
    /\ ~branch.created
    /\ branch # NoBranch => branch.name = StartBranch
    /\ declined_groups = <<>>
    /\ exit_code # EXIT_ALL_DECLINED
    /\ (pc \in {"review_done", "commit"} \/ CommitCalls # <<>>) =>
         accepted_groups =
           [k \in 1..Len(commit_groups) |->
              [group |-> k, message |-> commit_groups[k].message]]
    /\ \A n \in 1..Len(CommitCalls) :
         /\ ~CommitCalls[n].set_upstream
         /\ CommitCalls[n].op = "commit" =>
              CommitCalls[n].message =
                commit_groups[(n - 1) \div CallsPerGroup + 1].message

\* a run with --yes committed and pushed two groups
C25_Witness ==
  /\ yes
  /\ detected_vcs = "git"
  /\ exit_code = EXIT_SUCCESS
  /\ Len(commit_groups) = 2
  /\ Len(CallsOf({"push"})) = 2

\* C27: review and commit never change a group: message, files and type
\* are set when the group is generated and stay as they are; an edited
\* message is carried next to the group, in the accepted entry, and that
\* is the message committed.
C27_GroupsNotMutated ==
  /\ [][commit_groups' # commit_groups => pc = "generate_groups"]_vars
  /\ [](\A k \in 1..Len(accepted_groups) :
          /\ accepted_groups[k].group \in 1..Len(commit_groups)
          /\ \A n \in 1..Len(CommitCalls) :
               (CommitCalls[n].op = "commit"
                /\ (n - 1) \div CallsPerGroup + 1 = k) =>
                 /\ CommitCalls[n].message = AcceptedMessage(k)
                 /\ detected_vcs = "svn" => CommitCalls[n].files = AcceptedFiles(k))

\* an edited message was committed while the group kept its generated one
C27_Witness ==
  /\ Len(accepted_groups) = 1
  /\ AcceptedMessage(1) = <<"n","e","w"," ","t","e","x","t">>
  /\ commit_groups[accepted_groups[1].group].message # <<"n","e","w"," ","t","e","x","t">>
  /\ Len(CallsOf({"commit"})) = 1
  /\ LastCall.message = <<"n","e","w"," ","t","e","x","t">>

\* the branch dialogue has returned
BranchDecided ==
  pc \notin {"detect_vcs", "load_config", "branch", "branch_name"} /\ branch # NoBranch

\* the create_branch calls made so far
CreateCalls == CallsOf({"create_branch"})

\* C29: prompt_for_branch_creation is truthful: it reports True only when
\* create_branch succeeded for the reported name, and when it reports
\* False the working copy is still on the branch it was on before, also
\* after a create_branch that failed part-way.
C29_BranchTruthful ==
  BranchDecided =>
    /\ branch.created =>
         /\ CreateCalls # <<>>
         /\ ~CreateCalls[Len(CreateCalls)].outcome.raised
         /\ CreateCalls[Len(CreateCalls)].message = branch.name
    /\ ~branch.created => head = StartBranch

\* C30: when a VCS error is raised by a call of the commit loop, the run
\* ends at once with the VCS failure code: it is the last call made, no
\* later group is staged, committed or pushed, the calls made for earlier
\* groups stand as they were, and the summary is not printed.
C30_StopsAtFirstFailure ==
  /\ \A n \in 1..Len(CommitCalls) :
       RaisedVcsError(CommitCalls[n]) =>
         /\ n = Len(CommitCalls)
         /\ LastCall = CommitCalls[n]
         /\ pc = "exited"
         /\ exit_code = EXIT_VCS_FAILURE
         /\ ~summary_printed
         /\ \A m \in 1..(n - 1) :
              /\ ~CommitCalls[m].outcome.raised
              /\ CommitCalls[m].op = GroupOps[((m - 1) % CallsPerGroup) + 1]
  /\ summary_printed =>
       /\ exit_code = EXIT_SUCCESS
       /\ \A n \in 1..Len(CommitCalls) : ~CommitCalls[n].outcome.raised

\* the commit of the second accepted group failed after the first group
\* had been staged, committed and pushed
C30_Witness ==
  /\ detected_vcs = "git"
  /\ Len(CommitCalls) = 5
  /\ RaisedVcsError(CommitCalls[5])
  /\ \A m \in 1..4 : ~CommitCalls[m].outcome.raised
  /\ exit_code = EXIT_VCS_FAILURE

\* ------------------------------------------------------------------------
\* Properties of the plain-subject pass and of strip_thinking_tags
\* ------------------------------------------------------------------------

\* a line that is a plain subject followed by a blank line and then by
\* further content, within the lines the code looks at
IsSubjectWithBody(lines, i) ==
  LET stripped == Strip(lines[i])
  IN  /\ stripped # <<>>
      /\ ~HasMarker(Lower(stripped))
      /\ Len(stripped) > SubjectMinLen
      /\ Len(stripped) <= SubjectMaxLen
      /\ ~EndsWith(stripped, <<":">>)
      /\ i + 1 <= Len(lines)
      /\ Strip(lines[i + 1]) = <<>>
      /\ \E j \in 2..BodyLookahead : i + j <= Len(lines) /\ Strip(lines[i + j]) # <<>>

\* C26: when no line of the response has a type prefix, the message starts
\* at the first line that is non-empty, has no denylisted phrase, is longer
\* than 15 and at most 72 characters, does not end with ":" and is followed
\* by a blank line and then further content within the next 10 lines; when
\* no line is followed by such a body the whole response is returned.
C26_PlainSubjectStart ==
  (Len(fn_out) >= 2 /\ Strip(fn_out[1].value) # <<>>) =>
    LET raw_response == fn_out[1].value
        lines == SplitLines(raw_response)
        typed == {i \in 1..Len(lines) : IsTypedStart(lines[i])}
        subjects == {i \in 1..Len(lines) : IsSubjectWithBody(lines, i)}
    IN  typed = {} =>
          fn_out[2] = Returned(IF subjects = {} THEN Strip(raw_response)
                               ELSE Strip(JoinLines(Drop(lines, MinOf(subjects)))))

\* the text holds an opening tag of the pattern and its closing tag later
HasPair(text, pattern) ==
  LET lowered == Lower(text)
      o == FindFrom(lowered, pattern.open, 1)
  IN  o # 0 /\ FindFrom(lowered, pattern.close, o + Len(pattern.open)) # 0

\* C28: strip_thinking_tags is idempotent and complete: its output holds
\* no complete pair of one of the four tags, in any letter case, and a
\* second application returns the output unchanged.
C28_IdempotentComplete ==
  /\ Len(fn_out) >= 1 =>
       \A k \in 1..Len(thinking_patterns) : ~HasPair(fn_out[1].value, thinking_patterns[k])
  /\ Len(fn_out) = 2 => fn_out[2] = fn_out[1]

====
